---- MODULE Spec2Model ----
(***************************************************************************)
(* Model of the schedule compiler of innosoftfusiongo-schedule:            *)
(* ifgsch.Prepare (partition, merge, base time ranges, split, build) and   *)
(* ifgsch.Expand, as called by dumpListSchedule; the head of prepare       *)
(* (copy, trimmed names, fake cancellations, filter); the caches of the    *)
(* feed and of the schedule (memcache.Cached, memcache.CachedTransform)    *)
(* with scheduleHandler.                                                   *)
(*                                                                         *)
(* Dates are day numbers (ZeroDate is fusiongo.Date{}, real dates are      *)
(* >= 1), the weekday of day d is d % 7, 0 for Sunday.  A time of day is a *)
(* number of minutes since midnight, a time range the pair <<Start, End>>. *)
(***************************************************************************)
EXTENDS Integers, Sequences, FiniteSets, TLC

VARIABLES
    feed,       \* schedule.Activities as handed to Prepare
    updated,    \* the date of schedule.Updated
    pc,         \* position in Prepare / its caller
    ssStart,    \* ss.Start
    ssEnd,      \* ss.End
    pgs,        \* pgs: partition key -> (time range -> activity indexes)
    pks,        \* pks: the sorted partition keys
    pgks,       \* pgks: partition key -> sorted group keys
    pki,        \* index into pks of the partition being merged
    merges,     \* the merges applied so far, <<partition, Into, From>>
    base,       \* baseActivityTimeRange
    ss,         \* ss.Activities of the returned schedule
    err,        \* the error Prepare returned
    events,     \* the calls of fn by Expand, per instance
    prev,       \* the schedule an earlier call of Prepare returned for these occurrences
    mem,        \* the backing arrays of the slices, by address
    schedule,   \* the *fusiongo.Schedule of the caller of Prepare
    newSchedule,\* the copy prepare works on
    filter,     \* the filter handed to Prepare
    now,        \* the time of the last call of the cache of the feed
    cfg,        \* the configuration of the cache of the feed
    cache,      \* the variable cache of Cached
    tcache,     \* the variable cache of CachedTransform
    alloc,      \* the last address given to a new value
    source,     \* the kind of the source of the CachedTransform
    ret,        \* the last call of a cache and what it gave
    ncalls,     \* the number of calls so far
    fetches,    \* the goroutines of forceContextCancel, by the number of the call
    call,       \* the call of the cache of the feed which waits for its fetch
    reqs,       \* the requests which call Get of the schedule cache
    tmu,        \* the holder of the mutex of CachedTransform
    parse       \* parseSchedules and the start of main: input, position, cfg, cur, result

\* the variables of the body of prepare and of Expand
prepareVars ==
    <<feed, updated, pc, ssStart, ssEnd, pgs, pks, pgks, pki, merges, base, ss, err, events, prev>>

\* the variables of the head of prepare (copy, trim, fake cancellations, filter)
envVars == <<mem, schedule, newSchedule, filter>>

\* the variables of the caches
cacheVars == <<now, cfg, cache, tcache, alloc, source, ret, ncalls>>

\* the variables of the goroutines
concVars == <<fetches, call, reqs, tmu>>

\* the variables after the ones of the caches, and after the ones of the head
afterCacheVars == <<concVars, parse>>

afterEnvVars == <<cacheVars, afterCacheVars>>

vars == <<prepareVars, envVars, cacheVars, afterCacheVars>>

----------------------------------------------------------------------------
(* Bounds of the model *)

MaxOcc == 3

MaxOccOrd == 4

\* the longest feed with a time range of 00:00-00:00
MaxOccZero == 3

\* the longest feed of consecutive daily occurrences
MaxDaily == 14

\* the longest schedule handed to the head of prepare
MaxRaw == 3

\* the longest schedule handed to prepare with a filter
MaxFiltered == 2

\* the number of calls of the caches
MaxCalls == 3

(* Program constants *)

DaysPerWeek == 7

LastWindow == 7

DayHours == 24

MinutesPerHour == 60

ZeroDate == 0

ZeroTime == 0

ZeroTimeRange == <<0, 0>>

NoError == "nil"

----------------------------------------------------------------------------
(* fusiongo value types *)

Weekday(d) == d % DaysPerWeek

\* fusiongo.TimeRange.Compare: by start, then by end
\* the later time range first instead
TimeRangeLessReversed(a, b) == b[1] < a[1] \/ (a[1] = b[1] /\ b[2] < a[2])

TimeRangeLess(a, b) == a[1] < b[1] \/ (a[1] = b[1] /\ a[2] < b[2])

\* fusiongo.TimeRange.TimeOverlaps
TimeOverlaps(a, b) == a[1] < b[2] /\ b[1] < a[2]

\* cmp.Compare on the names used by the model
NameOrder == <<"Gym", "Pool", "Swim", "Test", "Yoga">>

NameIdx(n) == CHOOSE i \in 1..Len(NameOrder) : NameOrder[i] = n

NameLess(a, b) == NameIdx(a) < NameIdx(b)

Range(s) == {s[i] : i \in DOMAIN s}

\* the first seen most common element of xs (xs is non-empty)
mostCommon(xs) ==
    LET count(v) == Cardinality({i \in DOMAIN xs : xs[i] = v})
        first(v) == CHOOSE i \in DOMAIN xs : xs[i] = v /\ \A j \in 1..(i-1) : xs[j] # v
        top == CHOOSE v \in Range(xs) :
                   \A w \in Range(xs) :
                       \/ count(w) < count(v)
                       \/ (count(w) = count(v) /\ first(v) <= first(w))
    IN top

\* mostCommonBy over the start and end times of the activities idxs of A
GroupTimeRange(A, idxs) ==
    << mostCommon([i \in DOMAIN idxs |-> A[idxs[i]].TimeRange[1]]),
       mostCommon([i \in DOMAIN idxs |-> A[idxs[i]].TimeRange[2]]) >>

\* the elements of the finite set S as a sequence ascending by the order lt,
\* a set of pairs <<smaller, larger>>
SortedSeq(S, lt) ==
    [i \in 1..Cardinality(S) |->
        CHOOSE x \in S : Cardinality({y \in S : <<y, x>> \in lt}) = i - 1]

IntLess(a, b) == a < b

----------------------------------------------------------------------------
(* prepare: the range of the schedule *)

\* ss.Start: the earliest date of the activities
RangeStart(A) ==
    LET f[n \in 0..Len(A)] ==
            IF n = 0 THEN ZeroDate
            ELSE LET m == f[n - 1]
                 IN  IF m = ZeroDate \/ A[n].Date < m THEN A[n].Date ELSE m
    IN f[Len(A)]

\* ss.End: the latest date of the activities
RangeEnd(A) ==
    LET f[n \in 0..Len(A)] ==
            IF n = 0 THEN ZeroDate
            ELSE LET m == f[n - 1]
                 IN  IF m = ZeroDate \/ m < A[n].Date THEN A[n].Date ELSE m
    IN f[Len(A)]

----------------------------------------------------------------------------
(* prepare: partition by activity/location/weekday, grouped by time range *)

PartitionKey(fa) ==
    [Activity |-> fa.Activity, Location |-> fa.Location, Weekday |-> Weekday(fa.Date)]

PartitionKeyLess(pk1, pk2) ==
    IF pk1.Activity # pk2.Activity THEN NameLess(pk1.Activity, pk2.Activity)
    ELSE IF pk1.Location # pk2.Location THEN NameLess(pk1.Location, pk2.Location)
    ELSE pk1.Weekday < pk2.Weekday

\* pgs: for each partition, for each exact time range, the activity indexes in feed order
Partition(A) ==
    [pk \in {PartitionKey(A[i]) : i \in DOMAIN A} |->
        [gk \in {A[i].TimeRange : i \in {j \in DOMAIN A : PartitionKey(A[j]) = pk}} |->
            SortedSeq({i \in DOMAIN A : PartitionKey(A[i]) = pk /\ A[i].TimeRange = gk},
                      {p \in (DOMAIN A) \X (DOMAIN A) : IntLess(p[1], p[2])})]]

\* pks: the partition keys, sorted
SortedPartitionKeys(gss) ==
    SortedSeq(DOMAIN gss, {p \in (DOMAIN gss) \X (DOMAIN gss) : PartitionKeyLess(p[1], p[2])})

\* pgks: the group keys of each partition, sorted
SortedGroupKeys(gss) ==
    [pk \in DOMAIN gss |->
        SortedSeq(DOMAIN gss[pk],
                  {p \in (DOMAIN gss[pk]) \X (DOMAIN gss[pk]) : TimeRangeLess(p[1], p[2])})]

----------------------------------------------------------------------------
(* prepare: merge candidates of one partition *)

\* the dates of the span on weekday wd on which none of the activities idxs falls
Exclusions(A, idxs, wd, start, end) ==
    Cardinality({d \in start..end :
        Weekday(d) = wd /\ \A k \in DOMAIN idxs : A[idxs[k]].Date # d})

\* the duration of a time range, which may wrap around midnight
Duration(tr) ==
    IF tr[2] < tr[1] THEN DayHours * MinutesPerHour - (tr[1] - tr[2]) ELSE tr[2] - tr[1]

\* the number of start and end times of idxs which differ from tr
TimeExceptions(A, idxs, tr) ==
    Cardinality({k \in DOMAIN idxs : A[idxs[k]].TimeRange[1] # tr[1]})
    + Cardinality({k \in DOMAIN idxs : A[idxs[k]].TimeRange[2] # tr[2]})

\* no pair of groups instead
DatesIntersectNever(A, gs, gkInto, gkFrom) == FALSE

DatesIntersect(A, gs, gkInto, gkFrom) ==
    \E k \in DOMAIN gs[gkFrom] : \E l \in DOMAIN gs[gkInto] :
        A[gs[gkInto][l]].Date = A[gs[gkFrom][k]].Date

\* the test of the time ranges left out instead
AllOverlapUntested(A, gs, gkInto, gkFrom) == TRUE

AllOverlap(A, gs, gkInto, gkFrom) ==
    \A k \in DOMAIN gs[gkFrom] : \E l \in DOMAIN gs[gkInto] :
        TimeOverlaps(A[gs[gkFrom][k]].TimeRange, A[gs[gkInto][l]].TimeRange)

\* whether group gkFrom may be merged into group gkInto
IsCandidate(A, gs, gkInto, gkFrom) ==
    /\ ~DatesIntersect(A, gs, gkInto, gkFrom)
    /\ AllOverlap(A, gs, gkInto, gkFrom)

\* the candidate with its penalties and simulated result
Candidate(A, gs, gkInto, gkFrom, wd, start, end) ==
    LET res == gs[gkInto] \o gs[gkFrom]
        tr  == GroupTimeRange(A, res)
    IN  [ Into       |-> gkInto,
          From       |-> gkFrom,
          Exception  |-> TimeExceptions(A, res, tr),
          Exclusion  |-> Exclusions(A, res, wd, start, end),
          Duration   |-> Duration(GroupTimeRange(A, gs[gkFrom])),
          Activities |-> res,
          TimeRange  |-> tr ]

\* the comparison function the candidates are ranked with
\* by the exceptions before the exclusions instead
CandidateLessExceptionFirst(c1, c2) ==
    IF c1.Exception # c2.Exception THEN c1.Exception < c2.Exception
    ELSE IF c1.Exclusion # c2.Exclusion THEN c1.Exclusion < c2.Exclusion
    ELSE IF c1.Duration # c2.Duration THEN c1.Duration < c2.Duration
    ELSE TimeRangeLess(c1.Into, c2.Into)

CandidateLess(c1, c2) ==
    IF c1.Exclusion # c2.Exclusion THEN c1.Exclusion < c2.Exclusion
    ELSE IF c1.Exception # c2.Exception THEN c1.Exception < c2.Exception
    ELSE IF c1.Duration # c2.Duration THEN c1.Duration < c2.Duration
    ELSE TimeRangeLess(c1.Into, c2.Into)

\* the positions <<into, from>> in gks of the candidates, in the order they are appended to cs
CandidatePairs(A, gs, gks) ==
    {p \in (DOMAIN gks) \X (DOMAIN gks) : IsCandidate(A, gs, gks[p[1]], gks[p[2]])}

PairBefore(p, q) == p[1] < q[1] \/ (p[1] = q[1] /\ p[2] < q[2])

\* cs[0] after the stable sort: the first appended candidate no other one ranks before
BestCandidate(A, gs, gks, wd, start, end) ==
    LET ps == CandidatePairs(A, gs, gks)
        c(p) == Candidate(A, gs, gks[p[1]], gks[p[2]], wd, start, end)
        best == CHOOSE p \in ps : \A q \in ps \ {p} :
                    \/ CandidateLess(c(p), c(q))
                    \/ (~CandidateLess(c(q), c(p)) /\ PairBefore(p, q))
    IN  c(best)

\* the groups of the partition after merging candidate c
MergedGroups(gs, c) ==
    [gk \in (DOMAIN gs) \ {c.From} |-> IF gk = c.Into THEN c.Activities ELSE gs[gk]]

\* the group keys of the partition after merging candidate c
MergedGroupKeys(gks, c) == SelectSeq(gks, LAMBDA gk : gk # c.From)

----------------------------------------------------------------------------
(* prepare: base time ranges and the split of all-different groups *)

\* the group <<pk, gk>> activity fai ended up in
GroupOf(gss, fai) ==
    CHOOSE g \in {<<pk, gk>> : pk \in DOMAIN gss, gk \in UNION {DOMAIN gss[q] : q \in DOMAIN gss}} :
        /\ g[2] \in DOMAIN gss[g[1]]
        /\ \E k \in DOMAIN gss[g[1]][g[2]] : gss[g[1]][g[2]][k] = fai

\* baseActivityTimeRange after the merge: the time range of the group of each activity
BaseTimeRanges(A, gss) ==
    [fai \in DOMAIN A |->
        LET g == GroupOf(gss, fai) IN GroupTimeRange(A, gss[g[1]][g[2]])]

\* whether group ga of weekday wd is split: no cancellation, all time ranges
\* different, at least as many exclusions as time ranges
\* with more exclusions than time ranges only instead
IsSplitMoreExclusions(A, ga, wd, start, end) ==
    /\ \A k \in DOMAIN ga : ~A[ga[k]].IsCancelled
    /\ \A k, l \in DOMAIN ga : k # l => A[ga[k]].TimeRange # A[ga[l]].TimeRange
    /\ Len(ga) # 1
    /\ Exclusions(A, ga, wd, start, end) > Len(ga)

IsSplit(A, ga, wd, start, end) ==
    /\ \A k \in DOMAIN ga : ~A[ga[k]].IsCancelled
    /\ \A k, l \in DOMAIN ga : k # l => A[ga[k]].TimeRange # A[ga[l]].TimeRange
    /\ Len(ga) # 1
    /\ ~(Exclusions(A, ga, wd, start, end) < Len(ga))

\* baseActivityTimeRange after the split
SplitBaseTimeRanges(A, gss, b, start, end) ==
    [fai \in DOMAIN A |->
        LET g == GroupOf(gss, fai)
        IN  IF IsSplit(A, gss[g[1]][g[2]], g[1].Weekday, start, end)
            THEN A[fai].TimeRange
            ELSE b[fai]]

----------------------------------------------------------------------------
(* prepare: build the schedule *)

Exception(d) ==
    [ Date |-> d, OnlyOnWeekday |-> FALSE, LastOnWeekday |-> FALSE,
      Cancelled |-> FALSE, Excluded |-> FALSE, Time |-> ZeroTimeRange ]

\* the activities of the location, whatever their base time range, instead
MembersOfLocation(A, b, activity, location, baseTimeRange) ==
    {fai \in DOMAIN A : A[fai].Activity = activity /\ A[fai].Location = location}

\* the activities an instance is built from
Members(A, b, activity, location, baseTimeRange) ==
    {fai \in DOMAIN A :
        /\ A[fai].Activity = activity
        /\ A[fai].Location = location
        /\ b[fai] = baseTimeRange}

Max(S) == CHOOSE x \in S : \A y \in S : y <= x

Min(S) == CHOOSE x \in S : \A y \in S : x <= y

InstanceDays(A, M) ==
    [wd \in 0..(DaysPerWeek - 1) |-> \E fai \in M : Weekday(A[fai].Date) = wd]

\* instanceCount taken over the whole partition of the instance instead
InstanceCountOfPartition(A, M) ==
    [wd \in 0..(DaysPerWeek - 1) |->
        Cardinality({fai \in DOMAIN A :
            /\ Weekday(A[fai].Date) = wd
            /\ \E m \in M : A[m].Activity = A[fai].Activity /\ A[m].Location = A[fai].Location})]

\* instanceCount set to one instead of counted up
InstanceCountSet(A, M) ==
    [wd \in 0..(DaysPerWeek - 1) |-> IF \E fai \in M : Weekday(A[fai].Date) = wd THEN 1 ELSE 0]

InstanceCount(A, M) ==
    [wd \in 0..(DaysPerWeek - 1) |-> Cardinality({fai \in M : Weekday(A[fai].Date) = wd})]

\* last kept only if it is within the final LastWindow days instead
LastDatesWithinWindow(A, M, end) ==
    [wd \in 0..(DaysPerWeek - 1) |->
        LET ds == {A[fai].Date : fai \in {m \in M : Weekday(A[m].Date) = wd}}
            l  == IF ds = {} THEN ZeroDate ELSE Max(ds)
        IN  IF l < end - LastWindow THEN ZeroDate ELSE l]

\* last: per weekday the last date of the instance, kept only if it is more
\* than LastWindow days before the end of the schedule
LastDates(A, M, end) ==
    [wd \in 0..(DaysPerWeek - 1) |->
        LET ds == {A[fai].Date : fai \in {m \in M : Weekday(A[m].Date) = wd}}
            l  == IF ds = {} THEN ZeroDate ELSE Max(ds)
        IN  IF ~(l < end - LastWindow) THEN ZeroDate ELSE l]

\* no missing activity passed over instead
IgnoreFirstDayNever(d, start, upd) == FALSE

\* whether a missing activity on date d is passed over as cut off by the feed
IgnoreFirstDay(d, start, upd) == d = start /\ start < upd

\* the exceptions appended for date d of an instance on weekday Weekday(d)
ExceptionsOn(A, M, baseTimeRange, d, start, end, upd) ==
    LET found  == {fai \in M : A[fai].Date = d}
        exists == found # {}
        fa     == A[Min(found)]
        count  == InstanceCount(A, M)[Weekday(d)]
        last   == LastDates(A, M, end)[Weekday(d)]
        byActivity ==
            IF ~exists THEN <<>>
            ELSE IF fa.IsCancelled THEN << [Exception(d) EXCEPT !.Cancelled = TRUE] >>
            ELSE IF fa.TimeRange # baseTimeRange THEN << [Exception(d) EXCEPT !.Time = fa.TimeRange] >>
            ELSE <<>>
        byWeekday ==
            IF count = 1
            THEN IF exists THEN << [Exception(d) EXCEPT !.OnlyOnWeekday = TRUE] >> ELSE <<>>
            ELSE IF ~exists
                 THEN IF IgnoreFirstDay(d, start, upd) THEN <<>>
                      ELSE IF last = ZeroDate \/ ~(last < d)
                           THEN << [Exception(d) EXCEPT !.Excluded = TRUE] >>
                           ELSE <<>>
                 ELSE IF last = d
                      THEN << [Exception(d) EXCEPT !.LastOnWeekday = TRUE] >>
                      ELSE <<>>
    IN  byActivity \o byWeekday

\* the exceptions of every date of the schedule, whatever its weekday, instead
BuildInstanceEveryDate(A, b, activity, location, baseTimeRange, start, end, upd) ==
    LET M    == Members(A, b, activity, location, baseTimeRange)
        days == InstanceDays(A, M)
        xs[d \in start..(end + 1)] ==
            IF d > end THEN <<>>
            ELSE ExceptionsOn(A, M, baseTimeRange, d, start, end, upd) \o xs[d + 1]
    IN  [ Time |-> baseTimeRange, Days |-> days, Exceptions |-> xs[start] ]

BuildInstance(A, b, activity, location, baseTimeRange, start, end, upd) ==
    LET M    == Members(A, b, activity, location, baseTimeRange)
        days == InstanceDays(A, M)
        xs[d \in start..(end + 1)] ==
            IF d > end THEN <<>>
            ELSE (IF days[Weekday(d)]
                  THEN ExceptionsOn(A, M, baseTimeRange, d, start, end, upd)
                  ELSE <<>>) \o xs[d + 1]
    IN  [ Time |-> baseTimeRange, Days |-> days, Exceptions |-> xs[start] ]

\* ss.Activities: activities, locations and instances, each sorted and unique
BuildSchedule(A, b, start, end, upd) ==
    LET names == Range(NameOrder)
        byName == {p \in names \X names : NameLess(p[1], p[2])}
        byTimeRange == {p \in Range(b) \X Range(b) : TimeRangeLess(p[1], p[2])}
        activities == SortedSeq({A[i].Activity : i \in DOMAIN A}, byName)
        locations(a) ==
            SortedSeq({A[i].Location : i \in {j \in DOMAIN A : A[j].Activity = a}}, byName)
        times(a, l) ==
            SortedSeq({b[i] : i \in {j \in DOMAIN A : A[j].Activity = a /\ A[j].Location = l}},
                      byTimeRange)
    IN  [ai \in DOMAIN activities |->
            [ Name |-> activities[ai],
              Locations |->
                [li \in DOMAIN locations(activities[ai]) |->
                    LET a == activities[ai]
                        l == locations(a)[li]
                    IN  [ Name |-> l,
                          Instances |->
                            [ii \in DOMAIN times(a, l) |->
                                BuildInstance(A, b, a, l, times(a, l)[ii], start, end, upd)] ]] ]]

----------------------------------------------------------------------------
(* Expand *)

\* the loop over i.Exceptions without the skip of the dates after a LastOnWeekday
ExpandDateKeepAfterLast(i, date) ==
    LET xs == i.Exceptions
        f[k \in 0..Len(xs)] ==
            IF k = 0
            THEN [ ctl |-> "call", TimeRange |-> i.Time, Cancelled |-> FALSE, Exception |-> FALSE ]
            ELSE LET p == f[k - 1]
                     x == xs[k]
                 IN  IF p.ctl # "call" THEN p
                     ELSE IF x.Date = date
                     THEN IF x.OnlyOnWeekday THEN [p EXCEPT !.Exception = TRUE]
                          ELSE IF x.LastOnWeekday THEN [p EXCEPT !.Exception = TRUE]
                          ELSE IF x.Excluded THEN [p EXCEPT !.ctl = "skip"]
                          ELSE IF x.Cancelled THEN [p EXCEPT !.Cancelled = TRUE, !.Exception = TRUE]
                          ELSE IF x.Time # ZeroTimeRange
                               THEN [p EXCEPT !.TimeRange = x.Time, !.Exception = TRUE]
                          ELSE [p EXCEPT !.ctl = "panic"]
                     ELSE IF x.OnlyOnWeekday /\ Weekday(date) = Weekday(x.Date)
                     THEN [p EXCEPT !.ctl = "skip"]
                     ELSE p
    IN  f[Len(xs)]

\* the loop over i.Exceptions for one date: "call" with the arguments of fn,
\* "skip" for continue date, "panic"
ExpandDate(i, date) ==
    LET xs == i.Exceptions
        f[k \in 0..Len(xs)] ==
            IF k = 0
            THEN [ ctl |-> "call", TimeRange |-> i.Time, Cancelled |-> FALSE, Exception |-> FALSE ]
            ELSE LET p == f[k - 1]
                     x == xs[k]
                 IN  IF p.ctl # "call" THEN p
                     ELSE IF x.Date = date
                     THEN IF x.OnlyOnWeekday THEN [p EXCEPT !.Exception = TRUE]
                          ELSE IF x.LastOnWeekday THEN [p EXCEPT !.Exception = TRUE]
                          ELSE IF x.Excluded THEN [p EXCEPT !.ctl = "skip"]
                          ELSE IF x.Cancelled THEN [p EXCEPT !.Cancelled = TRUE, !.Exception = TRUE]
                          ELSE IF x.Time # ZeroTimeRange
                               THEN [p EXCEPT !.TimeRange = x.Time, !.Exception = TRUE]
                          ELSE [p EXCEPT !.ctl = "panic"]
                     ELSE IF x.OnlyOnWeekday /\ Weekday(date) = Weekday(x.Date)
                     THEN [p EXCEPT !.ctl = "skip"]
                     ELSE IF x.LastOnWeekday /\ Weekday(date) = Weekday(x.Date) /\ x.Date < date
                     THEN [p EXCEPT !.ctl = "skip"]
                     ELSE p
    IN  f[Len(xs)]

\* the calls of fn, in order: <<date, time range, cancelled, exception>>, up to a panic
Expand(start, end, i) ==
    LET f[d \in start..(end + 1)] ==
            IF d > end THEN [ panic |-> FALSE, calls |-> <<>> ]
            ELSE IF ~i.Days[Weekday(d)] THEN f[d + 1]
            ELSE LET r == ExpandDate(i, d)
                 IN  IF r.ctl = "panic" THEN [ panic |-> TRUE, calls |-> <<>> ]
                     ELSE IF r.ctl = "skip" THEN f[d + 1]
                     ELSE LET rest == f[d + 1]
                          IN  [ panic |-> rest.panic,
                                calls |-> << [ Date |-> d, TimeRange |-> r.TimeRange,
                                               Cancelled |-> r.Cancelled,
                                               Exception |-> r.Exception ] >> \o rest.calls ]
    IN  f[start]

\* the instances of a schedule with their activity and location, in tree order
InstanceList(S) ==
    LET byLocation(a, l) ==
            [ii \in DOMAIN l.Instances |->
                [ Activity |-> a.Name, Location |-> l.Name, Instance |-> l.Instances[ii] ]]
        locs[a \in Range(S)] ==
            LET g[n \in 0..Len(a.Locations)] ==
                    IF n = 0 THEN <<>> ELSE g[n - 1] \o byLocation(a, a.Locations[n])
            IN  g[Len(a.Locations)]
        acts[n \in 0..Len(S)] ==
            IF n = 0 THEN <<>> ELSE acts[n - 1] \o locs[S[n]]
    IN  acts[Len(S)]

\* the calls of fn for every instance of the schedule, in tree order
ExpandSchedule(S, start, end) ==
    [n \in DOMAIN InstanceList(S) |-> Expand(start, end, InstanceList(S)[n].Instance).calls]

ExpandPanics(S, start, end) ==
    \E n \in DOMAIN InstanceList(S) : Expand(start, end, InstanceList(S)[n].Instance).panic

\* whether none of the cases of the switch over an exception is taken
NoCase(x) ==
    /\ ~x.OnlyOnWeekday
    /\ ~x.LastOnWeekday
    /\ ~x.Cancelled
    /\ ~x.Excluded
    /\ ~(x.Time # ZeroTimeRange)

\* whether Dump reaches the default case of its switch
DumpPanics(S) ==
    \E n \in DOMAIN InstanceList(S) :
        \E k \in DOMAIN InstanceList(S)[n].Instance.Exceptions :
            NoCase(InstanceList(S)[n].Instance.Exceptions[k])

\* whether the sanity check of LocationWeekdayInstance panics for an instance
SanityPanics(S) ==
    \E n \in DOMAIN InstanceList(S) :
        LET x == InstanceList(S)[n].Instance
        IN  \E k \in DOMAIN x.Exceptions : ~x.Days[Weekday(x.Exceptions[k].Date)]

\* (activity name, location, date, start time) is unique in the feed
UniqueKeys(A) ==
    \A i, j \in DOMAIN A :
        i # j => <<A[i].Activity, A[i].Location, A[i].Date, A[i].TimeRange[1]>>
                 # <<A[j].Activity, A[j].Location, A[j].Date, A[j].TimeRange[1]>>

\* an error for a feed whose keys are not unique instead
PrepareErrorOnDuplicate(A) == IF UniqueKeys(A) THEN NoError ELSE "invariant violation"

\* the error Prepare returns
PrepareError(A) == NoError

----------------------------------------------------------------------------
(* The feeds handed to Prepare *)

Occurrence(a, l, d, tr, c) ==
    [ Activity |-> a, Location |-> l, Date |-> d, TimeRange |-> tr, IsCancelled |-> c ]

\* three dates on one weekday and one on the next, two time ranges with the
\* same start, cancellations in the second week, another activity on the first day
FeedDates == {1, 8, 15, 16}

FeedTimeRanges == {<<1, 3>>, <<1, 4>>}

CancelledDates == {8}

Occurrences ==
    {Occurrence("Swim", "Pool", d, tr, FALSE) : d \in FeedDates, tr \in FeedTimeRanges}
    \cup {Occurrence("Swim", "Pool", d, tr, TRUE) : d \in CancelledDates, tr \in FeedTimeRanges}
    \cup {Occurrence("Yoga", "Gym", 1, <<1, 3>>, FALSE)}

UpdatedDates == {1, 2}

Feeds == UNION {[1..n -> Occurrences] : n \in 1..MaxOcc}

\* one weekday over three weeks with time ranges which differ in start and in
\* end, two of them on the same date, and one which overlaps only the longest
OrdOccurrences ==
    { Occurrence("Swim", "Pool", 1, <<0, 4>>, FALSE),
      Occurrence("Swim", "Pool", 8, <<1, 3>>, FALSE),
      Occurrence("Swim", "Pool", 15, <<2, 3>>, FALSE),
      Occurrence("Swim", "Pool", 15, <<0, 3>>, FALSE),
      Occurrence("Swim", "Pool", 8, <<3, 4>>, FALSE) }

OrdFeeds == UNION {[1..n -> OrdOccurrences] : n \in 1..MaxOccOrd}

\* one weekday over four weeks, two of them without an occurrence, with the
\* time range 00:00-00:00 among the time ranges, and a cancellation
ZeroOccurrences ==
    {Occurrence("Swim", "Pool", d, tr, FALSE) : d \in {1, 8, 22}, tr \in {<<0, 0>>, <<0, 3>>, <<0, 4>>}}
    \cup {Occurrence("Swim", "Pool", 8, <<0, 0>>, TRUE)}

ZeroFeeds == UNION {[1..n -> ZeroOccurrences] : n \in 1..MaxOccZero}

\* the occurrences of the longest feed of the merge loop
MaxOccMerge == 4

\* one weekday over four weeks: one time range on two dates and three
\* shorter ones within it, two of them on the same date
MergeOccurrences ==
    { Occurrence("Swim", "Pool", 1, <<0, 4>>, FALSE),
      Occurrence("Swim", "Pool", 8, <<0, 4>>, FALSE),
      Occurrence("Swim", "Pool", 15, <<1, 3>>, FALSE),
      Occurrence("Swim", "Pool", 22, <<2, 3>>, FALSE),
      Occurrence("Swim", "Pool", 15, <<0, 3>>, FALSE) }

MergeFeeds == UNION {[1..n -> MergeOccurrences] : n \in 1..MaxOccMerge}

\* the occurrences of the longest feed of the split
MaxOccSplit == 3

\* one weekday over four weeks: two time ranges in the first two weeks, one
\* of them in the last week, as it is and cancelled, one in the third week
\* which overlaps a part of the others only
SplitOccurrences ==
    { Occurrence("Swim", "Pool", 1, <<0, 4>>, FALSE),
      Occurrence("Swim", "Pool", 8, <<0, 4>>, FALSE),
      Occurrence("Swim", "Pool", 8, <<1, 3>>, FALSE),
      Occurrence("Swim", "Pool", 22, <<1, 3>>, FALSE),
      Occurrence("Swim", "Pool", 22, <<1, 3>>, TRUE),
      Occurrence("Swim", "Pool", 15, <<2, 3>>, FALSE) }

SplitFeeds == UNION {[1..n -> SplitOccurrences] : n \in 1..MaxOccSplit}

\* fgTime, fgTimeRange and fgDate of the test, for the dates of January 2023
\* and the days after it; 1 January 2023 is a Sunday
Clock(h, m) == h * MinutesPerHour + m

fgTimeRange(h1, m1, h2, m2) == <<Clock(h1, m1), Clock(h2, m2)>>

Jan(d) == d + 6

\* the occurrence of the synthetic test on a day of January at a time range
Test(d, tr) == Occurrence("Test", "Test", Jan(d), tr, FALSE)

\* n consecutive daily occurrences from Sunday 1 January, all 10:30-11:30
DailyFeed(n) == [i \in 1..n |-> Test(i, fgTimeRange(10, 30, 11, 30))]

\* the feed of the second case of the synthetic test: Tuesdays and Thursdays
\* with three other time ranges and no Thursday 26 January, one Saturday, one Sunday
CadenceFeed ==
    << Test(3, fgTimeRange(10, 30, 11, 30)),
       Test(5, fgTimeRange(10, 30, 11, 30)),
       Test(10, fgTimeRange(10, 30, 11, 30)),
       Test(12, fgTimeRange(10, 30, 11, 45)),
       Test(17, fgTimeRange(10, 30, 11, 30)),
       Test(19, fgTimeRange(10, 45, 11, 30)),
       Test(24, fgTimeRange(10, 30, 11, 30)),
       Test(31, fgTimeRange(10, 15, 11, 45)),
       Test(33, fgTimeRange(10, 30, 11, 30)),
       Test(35, fgTimeRange(8, 0, 9, 0)),
       Test(36, fgTimeRange(8, 0, 9, 0)) >>

SyntheticFeeds ==
    {DailyFeed(n) : n \in 1..MaxDaily}
    \cup {SubSeq(CadenceFeed, 1, n) : n \in 1..Len(CadenceFeed)}

----------------------------------------------------------------------------
(* The state machine: one call of Prepare, then the expansion of its result *)

None == <<>>

Reorderings(n) == {p \in [1..n -> 1..n] : \A i, j \in 1..n : i # j => p[i] # p[j]}

\* the nil *fusionResult, and the one to the value fetched at time t
Nil == [ Addr |-> 0, Val |-> [At |-> ZeroTime] ]

Ptr(a, t) == [ Addr |-> a, Val |-> [At |-> t] ]

IsNil(p) == p.Addr = 0

\* no call of a cache so far
NoCall ==
    [ op |-> "none", src |-> Nil, srcErr |-> NoError, v |-> Nil, err |-> NoError,
      panic |-> FALSE, fetched |-> FALSE, status |-> "none", warning |-> NoError ]

CacheIdle ==
    /\ now = ZeroTime
    /\ cfg = None
    /\ cache = None
    /\ tcache = None
    /\ alloc = 0
    /\ source = "none"
    /\ ret = NoCall
    /\ ncalls = 0
    /\ fetches = <<>>
    /\ call = None
    /\ reqs = <<>>
    /\ tmu = 0
    /\ parse = None

InitState ==
    /\ pc = "prepare"
    /\ ssStart = ZeroDate
    /\ ssEnd = ZeroDate
    /\ pgs = None
    /\ pks = <<>>
    /\ pgks = None
    /\ pki = 0
    /\ merges = <<>>
    /\ base = <<>>
    /\ ss = <<>>
    /\ err = NoError
    /\ events = <<>>
    /\ prev = None
    /\ mem = <<>>
    /\ schedule = None
    /\ newSchedule = None
    /\ filter = None
    /\ CacheIdle

Init ==
    /\ feed \in Feeds
    /\ updated \in UpdatedDates
    /\ InitState

InitOrd ==
    /\ feed \in OrdFeeds
    /\ updated = 1
    /\ InitState

InitZero ==
    /\ feed \in ZeroFeeds
    /\ updated = 1
    /\ InitState

InitSynthetic ==
    /\ feed \in SyntheticFeeds
    /\ updated = Jan(1)
    /\ InitState

\* find the range, partition the activities, sort the keys
DoPartition ==
    /\ pc = "prepare"
    /\ ssStart' = RangeStart(feed)
    /\ ssEnd' = RangeEnd(feed)
    /\ pgs' = Partition(feed)
    /\ pks' = SortedPartitionKeys(Partition(feed))
    /\ pgks' = SortedGroupKeys(Partition(feed))
    /\ pki' = 1
    /\ pc' = "merge"
    /\ UNCHANGED <<feed, updated, merges, base, ss, err, events, prev>>
    /\ UNCHANGED <<envVars, afterEnvVars>>

\* one epoch of the merge loop with a candidate: merge the best one
MergeBest ==
    /\ pc = "merge"
    /\ pki <= Len(pks)
    /\ LET pk == pks[pki]
       IN  /\ CandidatePairs(feed, pgs[pk], pgks[pk]) # {}
           /\ LET c == BestCandidate(feed, pgs[pk], pgks[pk], pk.Weekday, ssStart, ssEnd)
              IN  /\ pgs' = [pgs EXCEPT ![pk] = MergedGroups(pgs[pk], c)]
                  /\ pgks' = [pgks EXCEPT ![pk] = MergedGroupKeys(pgks[pk], c)]
                  /\ merges' = Append(merges, <<pk, c.Into, c.From>>)
    /\ UNCHANGED <<feed, updated, pc, ssStart, ssEnd, pks, pki, base, ss, err, events, prev>>
    /\ UNCHANGED <<envVars, afterEnvVars>>

\* an epoch without candidates: the merge loop of the partition ends
MergeNone ==
    /\ pc = "merge"
    /\ pki <= Len(pks)
    /\ CandidatePairs(feed, pgs[pks[pki]], pgks[pks[pki]]) = {}
    /\ pki' = pki + 1
    /\ UNCHANGED <<feed, updated, pc, ssStart, ssEnd, pgs, pks, pgks, merges, base, ss, err, events, prev>>
    /\ UNCHANGED <<envVars, afterEnvVars>>

\* compute the base time ranges of all activities
ComputeBase ==
    /\ pc = "merge"
    /\ pki > Len(pks)
    /\ base' = BaseTimeRanges(feed, pgs)
    /\ pc' = "split"
    /\ UNCHANGED <<feed, updated, ssStart, ssEnd, pgs, pks, pgks, pki, merges, ss, err, events, prev>>
    /\ UNCHANGED <<envVars, afterEnvVars>>

\* split the groups which are all at different times
Split ==
    /\ pc = "split"
    /\ base' = SplitBaseTimeRanges(feed, pgs, base, ssStart, ssEnd)
    /\ pc' = "build"
    /\ UNCHANGED <<feed, updated, ssStart, ssEnd, pgs, pks, pgks, pki, merges, ss, err, events, prev>>
    /\ UNCHANGED <<envVars, afterEnvVars>>

\* build the schedule and return it
Build ==
    /\ pc = "build"
    /\ ss' = BuildSchedule(feed, base, ssStart, ssEnd, updated)
    /\ err' = PrepareError(feed)
    /\ pc' = "returned"
    /\ UNCHANGED <<feed, updated, ssStart, ssEnd, pgs, pks, pgks, pki, merges, base, events, prev>>
    /\ UNCHANGED <<envVars, afterEnvVars>>

\* expand every instance of the returned schedule
ExpandAll ==
    /\ pc = "returned"
    /\ events' = ExpandSchedule(ss, ssStart, ssEnd)
    /\ pc' = IF ExpandPanics(ss, ssStart, ssEnd) THEN "panic" ELSE "expanded"
    /\ UNCHANGED <<feed, updated, ssStart, ssEnd, pgs, pks, pgks, pki, merges, base, ss, err, prev>>
    /\ UNCHANGED <<envVars, afterEnvVars>>

\* the caller hands the same occurrences to Prepare again, in another order
PrepareReordered ==
    /\ pc = "returned"
    /\ prev = None
    /\ \E p \in Reorderings(Len(feed)) :
        /\ \E i \in DOMAIN feed : p[i] # i
        /\ feed' = [i \in DOMAIN feed |-> feed[p[i]]]
    /\ prev' = ss
    /\ pc' = "prepare"
    /\ ssStart' = ZeroDate
    /\ ssEnd' = ZeroDate
    /\ pgs' = None
    /\ pks' = <<>>
    /\ pgks' = None
    /\ pki' = 0
    /\ merges' = <<>>
    /\ base' = <<>>
    /\ ss' = <<>>
    /\ UNCHANGED <<updated, err, events>>
    /\ UNCHANGED <<envVars, afterEnvVars>>

Next ==
    \/ DoPartition
    \/ MergeBest
    \/ MergeNone
    \/ ComputeBase
    \/ Split
    \/ Build
    \/ ExpandAll

Spec == Init /\ [][Next]_vars

NextOrd ==
    \/ Next
    \/ PrepareReordered

SpecOrd == InitOrd /\ [][NextOrd]_vars

SpecZero == InitZero /\ [][Next]_vars

SpecSynthetic == InitSynthetic /\ [][Next]_vars

\* the merge loop on one weekday over four weeks
InitMerge ==
    /\ feed \in MergeFeeds
    /\ updated = 1
    /\ InitState

SpecMerge == InitMerge /\ [][Next]_vars

\* a turn of the merge loop, and the step after its last turn
MergeLoop == MergeBest \/ MergeNone \/ ComputeBase

\* Prepare runs on: weak fairness of the merge loop, which is WF_vars(MergeLoop)
\* with ENABLED <<MergeLoop>>_vars written out as pc = "merge", since in the
\* loop there is a candidate or none, or no partition is left
MergeLoopFair == []<>(pc # "merge") \/ []<><<MergeLoop>>_vars

SpecMergeLive == InitMerge /\ [][Next]_vars /\ MergeLoopFair

\* the split on one weekday over four weeks
InitSplit ==
    /\ feed \in SplitFeeds
    /\ updated = 1
    /\ InitState

SpecSplit == InitSplit /\ [][Next]_vars

----------------------------------------------------------------------------
(* The head of prepare: copy of the schedule, trimmed names, fake          *)
(* cancellations, filter.  Here an activity name is the sequence of its    *)
(* parts, where a cancellation marker and a blank are parts of their own;  *)
(* a slice is the address of its backing array in mem and its length.      *)

Space == " "

CancelPrefixes == <<"CANCELLED - ", "CANCELED - ">>

CancelSuffixes ==
    << " - CANCELLED", " - CANCELED",
       " [CANCELLED]", " [CANCELED]",
       " [Cancelled]", " [Canceled]",
       " [cancelled]", " [canceled]",
       " (CANCELLED)", " (CANCELED)",
       " (Cancelled)", " (Canceled)",
       " (cancelled)", " (canceled)" >>

\* strings.TrimSpace
TrimSpace(s) ==
    LET keep == {i \in DOMAIN s : s[i] # Space}
    IN  IF keep = {} THEN <<>> ELSE SubSeq(s, Min(keep), Max(keep))

\* strings.CutPrefix: <<after, found>>
CutPrefix(s, prefix) ==
    IF s # <<>> /\ Head(s) = prefix THEN <<Tail(s), TRUE>> ELSE <<s, FALSE>>

\* strings.CutSuffix: <<before, found>>
CutSuffix(s, suffix) ==
    IF s # <<>> /\ s[Len(s)] = suffix THEN <<SubSeq(s, 1, Len(s) - 1), TRUE>> ELSE <<s, FALSE>>

\* the name and the flag of an activity which is not flagged cancelled after
\* the prefixes, then the suffixes in their order, were tried
CutMarker(name) ==
    LET p1 == CutPrefix(name, CancelPrefixes[1])
        p2 == CutPrefix(name, CancelPrefixes[2])
        found == {k \in DOMAIN CancelSuffixes : CutSuffix(name, CancelSuffixes[k])[2]}
    IN  IF p1[2] THEN p1
        ELSE IF p2[2] THEN p2
        ELSE IF found # {} THEN CutSuffix(name, CancelSuffixes[Min(found)])
        ELSE <<name, FALSE>>

\* possibleMatches of the converted activity fa at index fai: the other
\* activities of the list as it is now, same name, start and weekday
\* the activities of every weekday instead
possibleMatchesAnyWeekday(A, fai, fa) ==
    LET f[n \in 0..Len(A)] ==
            IF n = 0 THEN <<>>
            ELSE IF /\ n # fai
                    /\ A[n].Activity = fa.Activity
                    /\ A[n].TimeRange[1] = fa.TimeRange[1]
                 THEN Append(f[n - 1], A[n])
                 ELSE f[n - 1]
    IN  f[Len(A)]

possibleMatches(A, fai, fa) ==
    LET f[n \in 0..Len(A)] ==
            IF n = 0 THEN <<>>
            ELSE IF /\ n # fai
                    /\ A[n].Activity = fa.Activity
                    /\ A[n].TimeRange[1] = fa.TimeRange[1]
                    /\ Weekday(A[n].Date) = Weekday(fa.Date)
                 THEN Append(f[n - 1], A[n])
                 ELSE f[n - 1]
    IN  f[Len(A)]

\* one iteration of the loop over the activities: schedule.Activities after it
ConvertFake(A, fai) ==
    LET fa == A[fai]
        cut == CutMarker(fa.Activity)
        fa1 == [fa EXCEPT !.Activity = cut[1], !.IsCancelled = cut[2]]
        pm == possibleMatches(A, fai, fa1)
        fa2 == IF pm = <<>> THEN fa1
               ELSE [fa1 EXCEPT
                        !.ActivityID = mostCommon([k \in DOMAIN pm |-> pm[k].ActivityID]),
                        !.Description = mostCommon([k \in DOMAIN pm |-> pm[k].Description]),
                        !.Location = mostCommon([k \in DOMAIN pm |-> pm[k].Location])]
    IN  IF fa.IsCancelled \/ ~cut[2] THEN A ELSE [A EXCEPT ![fai] = fa2]

\* the loop which converts the fake cancellations, in place and in order
ConvertFakes(A) ==
    LET f[n \in 0..Len(A)] == IF n = 0 THEN A ELSE ConvertFake(f[n - 1], n)
    IN  f[Len(A)]

\* the loop which trims the activity names
TrimNames(A) == [fai \in DOMAIN A |-> [A[fai] EXCEPT !.Activity = TrimSpace(@)]]

\* the elements of a slice
Elems(m, sl) == SubSeq(m[sl.Ptr], 1, sl.Len)

\* the slice slices.Clone(c.Category) gives to activity i of the copy
\* the slice of the caller instead
CategoryShared(c, a) == c

CategoryOfCopy(c, a) == [Ptr |-> a, Len |-> c.Len]

\* mem after the copy of the schedule: the clone of Activities at address
\* Len(m) + 1, the clone of the categories of activity i at the i-th after it
CopiedMem(m, sl) ==
    LET A == Elems(m, sl)
        a == Len(m) + 1
    IN  m \o << [i \in DOMAIN A |-> [A[i] EXCEPT !.Category = CategoryOfCopy(@, a + i)]] >>
          \o [i \in DOMAIN A |-> Elems(m, A[i].Category)]

\* strings.Contains on strings given as the sequences of their parts
Contains(x, substr) ==
    \E i \in 1 .. (Len(x) + 1) :
        /\ i + Len(substr) - 1 <= Len(x)
        /\ SubSeq(x, i, i + Len(substr) - 1) = substr

\* flt of parseSchedules for the actions in, notIn, map, contains and
\* notContains: <<strings, ok>>
flt(act, arg, s) ==
    LET hit == \E i \in DOMAIN s : \E k \in DOMAIN arg : s[i] = arg[k]
        m == Len(s) > 0
        mm[i \in 0..Len(s)] ==
            IF i = 0 THEN FALSE
            ELSE IF act = "contains" THEN mm[i - 1] /\ Contains(s[i], arg[1])
            ELSE mm[i - 1] /\ ~Contains(s[i], arg[1])
    IN  CASE act = "in" -> <<s, hit>>
          [] act = "notIn" -> <<s, ~hit>>
          [] act = "map" -> <<[i \in DOMAIN s |-> IF s[i] = arg[1] THEN arg[2] ELSE s[i]], TRUE>>
          [] act \in {"contains", "notContains"} -> <<s, ~m \/ mm[Len(s)]>>

\* one FilterFunc of parseSchedules on the activity fa: mem, fa and ok after it
FilterFunc(m, fa, f) ==
    CASE f.Key = "category" ->
            LET cat == Elems(m, fa.Category)
                r == flt(f.Act, f.Arg, [i \in DOMAIN cat |-> cat[i].Name])
            IN  [ m |-> [m EXCEPT ![fa.Category.Ptr] =
                            [i \in DOMAIN @ |-> IF i \in DOMAIN cat
                                                THEN [@[i] EXCEPT !.Name = r[1][i]] ELSE @[i]]],
                  fa |-> fa, ok |-> r[2] ]
      [] f.Key = "category_id" ->
            LET cat == Elems(m, fa.Category)
                r == flt(f.Act, f.Arg, [i \in DOMAIN cat |-> cat[i].ID])
            IN  [ m |-> [m EXCEPT ![fa.Category.Ptr] =
                            [i \in DOMAIN @ |-> IF i \in DOMAIN cat
                                                THEN [@[i] EXCEPT !.ID = r[1][i]] ELSE @[i]]],
                  fa |-> fa, ok |-> r[2] ]
      [] f.Key = "location" ->
            LET r == flt(f.Act, f.Arg, <<fa.Location>>)
            IN  [ m |-> m, fa |-> [fa EXCEPT !.Location = r[1][1]], ok |-> r[2] ]
      [] f.Key = "activity" ->
            LET r == flt(f.Act, f.Arg, <<fa.Activity>>)
            IN  [ m |-> m, fa |-> [fa EXCEPT !.Activity = r[1][1]], ok |-> r[2] ]

\* Filters.Filter on a copy of the activity: the filters in order, up to the
\* first which rejects it
Filters(m, fa, fs) ==
    LET f[k \in 0..Len(fs)] ==
            IF k = 0 THEN [ m |-> m, fa |-> fa, ok |-> TRUE ]
            ELSE LET r == f[k - 1]
                 IN  IF r.ok THEN FilterFunc(r.m, r.fa, fs[k]) ELSE r
    IN  f[Len(fs)]

\* the filter loop on the slice sl: mem after it and the number n of
\* activities kept
FilterActivities(m, sl, fs) ==
    LET f[i \in 0..sl.Len] ==
            IF i = 0 THEN [ m |-> m, n |-> 0 ]
            ELSE LET s == f[i - 1]
                     r == Filters(s.m, s.m[sl.Ptr][i], fs)
                 IN  IF r.ok
                     THEN [ m |-> [r.m EXCEPT ![sl.Ptr][s.n + 1] = r.fa], n |-> s.n + 1 ]
                     ELSE [ m |-> r.m, n |-> s.n ]
    IN  f[sl.Len]

----------------------------------------------------------------------------
(* The schedules and filters handed to the head of prepare *)

ActivityInstance(a, id, desc, l, d, tr, c) ==
    [ Activity |-> a, ActivityID |-> id, Description |-> desc, Location |-> l,
      Date |-> d, TimeRange |-> tr, IsCancelled |-> c ]

Category(id, name) == [ ID |-> id, Name |-> name ]

\* the memory of the caller: the activities at address 1, the categories
\* of activity i at address 1 + i
CallerMem(A, cats) ==
    << [i \in DOMAIN A |->
          [ Activity |-> A[i].Activity, ActivityID |-> A[i].ActivityID,
            Description |-> A[i].Description, Location |-> A[i].Location,
            Date |-> A[i].Date, TimeRange |-> A[i].TimeRange,
            IsCancelled |-> A[i].IsCancelled,
            Category |-> [Ptr |-> 1 + i, Len |-> Len(cats[i])] ]] >>
    \o cats

\* "Yoga" with and without markers and blanks
RawNames ==
    { <<"Yoga">>, <<"Yoga", " - CANCELLED">>,
      <<"CANCELED - ", "Yoga", " [Canceled]">>, <<Space, "Yoga", " (cancelled)", Space>> }

\* identifier, description and location which come together
Variants == { <<"id1", "d1", "Gym">>, <<"id2", "d2", "Hall">> }

\* two dates on one weekday at the same start, one on another weekday and
\* one at another start, entries which are flagged cancelled
RawActivities ==
    {ActivityInstance(a, v[1], v[2], v[3], s[1], s[2], FALSE) :
        a \in RawNames, v \in Variants, s \in {<<1, <<1, 3>>>>, <<8, <<1, 4>>>>}}
    \cup {ActivityInstance(<<"Yoga">>, "id2", "d1", "Hall", s[1], s[2], FALSE) :
        s \in {<<2, <<1, 3>>>>, <<8, <<2, 3>>>>}}
    \cup {ActivityInstance(<<"Yoga", " - CANCELLED">>, "id1", "d1", "Gym", 1, <<1, 3>>, TRUE),
          ActivityInstance(<<"Yoga">>, "id2", "d2", "Hall", 8, <<1, 4>>, TRUE)}

RawFeeds == UNION {[1..n -> RawActivities] : n \in 1..MaxRaw}

OneCategory == <<Category("c1", "Fitness")>>

InitHead ==
    /\ pc = "copy"
    /\ feed = <<>>
    /\ updated = 1
    /\ ssStart = ZeroDate
    /\ ssEnd = ZeroDate
    /\ pgs = None
    /\ pks = <<>>
    /\ pgks = None
    /\ pki = 0
    /\ merges = <<>>
    /\ base = <<>>
    /\ ss = <<>>
    /\ err = NoError
    /\ events = <<>>
    /\ prev = None
    /\ newSchedule = None
    /\ CacheIdle

InitNormalize ==
    /\ \E A \in RawFeeds :
        /\ mem = CallerMem(A, [i \in DOMAIN A |-> OneCategory])
        /\ schedule = [Activities |-> [Ptr |-> 1, Len |-> Len(A)]]
    /\ filter = None
    /\ InitHead

\* copy the schedule so we can modify it
Copy ==
    /\ pc = "copy"
    /\ mem' = CopiedMem(mem, schedule.Activities)
    /\ newSchedule' = [Activities |-> [Ptr |-> Len(mem) + 1, Len |-> schedule.Activities.Len]]
    /\ pc' = "trim"
    /\ UNCHANGED <<feed, updated, ssStart, ssEnd, pgs, pks, pgks, pki, merges, base, ss, err, events,
                   prev, schedule, filter>>
    /\ UNCHANGED afterEnvVars

\* trim activity names
Trim ==
    /\ pc = "trim"
    /\ mem' = [mem EXCEPT ![newSchedule.Activities.Ptr] = TrimNames(@)]
    /\ pc' = "convert"
    /\ UNCHANGED <<feed, updated, ssStart, ssEnd, pgs, pks, pgks, pki, merges, base, ss, err, events,
                   prev, schedule, newSchedule, filter>>
    /\ UNCHANGED afterEnvVars

\* convert fake cancellations to real ones
Convert ==
    /\ pc = "convert"
    /\ mem' = [mem EXCEPT ![newSchedule.Activities.Ptr] = ConvertFakes(@)]
    /\ pc' = "filter"
    /\ UNCHANGED <<feed, updated, ssStart, ssEnd, pgs, pks, pgks, pki, merges, base, ss, err, events,
                   prev, schedule, newSchedule, filter>>
    /\ UNCHANGED afterEnvVars

\* filter activities
Filter ==
    /\ pc = "filter"
    /\ IF filter # None
       THEN LET r == FilterActivities(mem, newSchedule.Activities, filter)
            IN  /\ mem' = r.m
                /\ newSchedule' = [newSchedule EXCEPT !.Activities.Len = r.n]
       ELSE UNCHANGED <<mem, newSchedule>>
    /\ pc' = "filtered"
    /\ UNCHANGED <<feed, updated, ssStart, ssEnd, pgs, pks, pgks, pki, merges, base, ss, err, events,
                   prev, schedule, filter>>
    /\ UNCHANGED afterEnvVars

NextHead ==
    \/ Copy
    \/ Trim
    \/ Convert
    \/ Filter

SpecNormalize == InitNormalize /\ [][NextHead]_vars

\* the filters of a schedule file: they rewrite category names and category
\* identifiers, locations and names, and drop activities by location or category
FilterFuncOf(key, act, arg) == [ Key |-> key, Act |-> act, Arg |-> arg ]

FilterLists ==
    { None,
      <<FilterFuncOf("category", "map", <<"Fitness", "Sport">>)>>,
      <<FilterFuncOf("location", "notIn", <<"Hall">>)>>,
      <<FilterFuncOf("category", "map", <<"Fitness", "Sport">>),
        FilterFuncOf("location", "notIn", <<"Hall">>)>>,
      <<FilterFuncOf("activity", "map", << <<"Yoga">>, <<"Pilates">> >>)>>,
      <<FilterFuncOf("category_id", "map", <<"c1", "c9">>),
        FilterFuncOf("location", "map", <<"Gym", "Studio">>),
        FilterFuncOf("category", "in", <<"Aquatics">>)>> }

CategoryLists ==
    { OneCategory, <<Category("c1", "Fitness"), Category("c2", "Aquatics")>> }

\* regular occurrences and fake cancellations at one time of one day
FilteredActivities ==
    {ActivityInstance(a, v[1], v[2], v[3], 1, <<1, 3>>, FALSE) :
        a \in {<<"Yoga">>, <<"Yoga", " - CANCELLED">>, <<Space, "Yoga", " (cancelled)", Space>>},
        v \in Variants}

FilteredFeeds == UNION {[1..n -> FilteredActivities] : n \in 1..MaxFiltered}

InitFilter ==
    /\ \E A \in FilteredFeeds : \E cats \in [DOMAIN A -> CategoryLists] :
        /\ mem = CallerMem(A, cats)
        /\ schedule = [Activities |-> [Ptr |-> 1, Len |-> Len(A)]]
    /\ filter \in FilterLists
    /\ InitHead

SpecFilter == InitFilter /\ [][NextHead]_vars

\* the activities of the longest schedule filtered by contains
MaxContains == 2

\* names, locations and category lists with and without the part the
\* filters look for, and an activity without a category
ContainsActivities ==
    {ActivityInstance(a, "id1", "d1", l, 1, <<1, 3>>, FALSE) :
        a \in {<<"Power", "Yoga">>, <<"Swim">>}, l \in {<<"Gym">>, <<"Pool", "Hall">>}}

ContainsCategories ==
    { <<>>, <<Category(<<"c1">>, <<"Fit">>)>>,
      <<Category(<<"c1">>, <<"Fit">>), Category(<<"c2">>, <<"Aqua", "Fit">>)>>,
      <<Category(<<"c1">>, <<"Fit">>), Category(<<"c3">>, <<"Dance">>)>> }

ContainsFilters ==
    { <<FilterFuncOf(f[1], act, <<f[2]>>)>> :
        f \in { <<"activity", <<"Yoga">> >>, <<"location", <<"Gym">> >>,
                <<"category", <<"Fit">> >>, <<"category_id", <<"c1">> >> },
        act \in {"contains", "notContains"} }

ContainsFeeds == UNION {[1..n -> ContainsActivities] : n \in 1..MaxContains}

InitContains ==
    /\ \E A \in ContainsFeeds : \E cats \in [DOMAIN A -> ContainsCategories] :
        /\ mem = CallerMem(A, cats)
        /\ schedule = [Activities |-> [Ptr |-> 1, Len |-> Len(A)]]
    /\ filter \in ContainsFilters
    /\ InitHead

SpecContains == InitContains /\ [][NextHead]_vars

----------------------------------------------------------------------------
(* The caches: memcache.Cached around the fetch of the feed and            *)
(* memcache.CachedTransform around the compilation of the schedule.  Times *)
(* are seconds, ZeroTime is time.Time{}; a pointer is the address of a     *)
(* value together with that value, two pointers are equal when their       *)
(* addresses are, the address of the nil pointer is 0.                     *)
\* the values of the defaults of Cached, in seconds
DefaultCacheTime == 900

DefaultStaleTime == 7200

\* negZeroDef
negZeroDef(val, def) ==
    IF val = 0 THEN def
    ELSE IF val < 0 THEN 0
    ELSE val

\* the configuration Cached works with
CacheConfig(cacheTime, staleTime, backoff) ==
    [ CacheTime |-> negZeroDef(cacheTime, DefaultCacheTime),
      StaleTime |-> negZeroDef(staleTime, DefaultStaleTime),
      Backoff |-> backoff ]

\* the Backoff of main: the time of the next attempt after failure n at time t
\* the time of the failure itself instead
BackoffFuncAtOnce(t, n) == t

BackoffFunc(t, n) ==
    IF n <= 0 THEN t
    ELSE IF n \in {1, 2} THEN t + 1
    ELSE IF n \in 3..6 THEN t + 15
    ELSE IF n \in 7..10 THEN t + 60
    ELSE t + 900

\* the age after which the old value is cleared
\* the cache time alone instead
StaleLimitCacheTime(c) == c.CacheTime

StaleLimit(c) == c.CacheTime + c.StaleTime

\* the cache of Cached after the check of the age at time t
Expired(st, c, t) ==
    IF st.success # ZeroTime /\ t - st.success > StaleLimit(c)
    THEN [st EXCEPT !.success = ZeroTime, !.successV = Nil]
    ELSE st

\* the function Cached returns, called at time t: fetch is the result the
\* fetch function gives if it is called, a the address of a new value
Cached(st, c, t, a, fetch) ==
    IF st.success # ZeroTime /\ t - st.success <= c.CacheTime
    THEN [ cache |-> st, v |-> st.successV, err |-> NoError, fetched |-> FALSE ]
    ELSE LET c1 == Expired(st, c, t)
             bt == BackoffFunc(c1.failure, c1.failureN)
         IN  IF c.Backoff /\ c1.failureN # 0 /\ bt # ZeroTime /\ t < bt
             THEN [ cache |-> c1, v |-> c1.successV, err |-> c1.failureV, fetched |-> FALSE ]
             ELSE LET c2 == IF fetch # NoError
                            THEN [c1 EXCEPT !.failure = t, !.failureV = fetch,
                                            !.failureN = @ + 1]
                            ELSE [ failure |-> ZeroTime, failureV |-> NoError, failureN |-> 0,
                                   success |-> t, successV |-> Ptr(a, t) ]
                  IN  [ cache |-> c2, v |-> c2.successV, err |-> c2.failureV, fetched |-> TRUE ]

\* CacheFunc.Get on the result r of the wrapped function
\* without the check instead
CacheFuncGetUnchecked(r) == [ v |-> r.v, err |-> r.err, panic |-> FALSE ]

CacheFuncGet(r) == [ v |-> r.v, err |-> r.err, panic |-> r.err = NoError /\ IsNil(r.v) ]

\* the nil *scheduleResult
NilResult == [ Addr |-> 0, Val |-> [Error |-> NoError, Schedule |-> Nil] ]

\* the transform of scheduleRenderer on the value src points to: the result
\* with the schedule prepared from that value, and the error
\* an error for a value which comes with an error instead
scheduleRendererStrict(src, fusionErr) ==
    [ res |-> [ Error |-> NoError, Schedule |-> src ],
      err |-> IF fusionErr # NoError THEN "prepare schedule" ELSE NoError ]

scheduleRenderer(src, fusionErr) ==
    [ res |-> [ Error |-> fusionErr, Schedule |-> src ], err |-> PrepareError(<<>>) ]

\* the function CachedTransform returns, for the result src, srcErr of the
\* source: tr is the result of the transform if it is executed, a the
\* address of a new result
CachedTransform(st, src, srcErr, a, tr) ==
    IF srcErr # NoError /\ IsNil(src)
    THEN [ cache |-> [st EXCEPT !.res = NilResult, !.resErr = NoError],
           v |-> NilResult, err |-> srcErr, panic |-> FALSE ]
    ELSE IF srcErr = NoError /\ IsNil(src)
    THEN [ cache |-> st, v |-> NilResult, err |-> NoError, panic |-> TRUE ]
    ELSE IF st.src.Addr # src.Addr \/ st.srcErr # srcErr
    THEN [ cache |-> [ src |-> src, srcErr |-> srcErr,
                       res |-> [Addr |-> a, Val |-> tr.res], resErr |-> tr.err ],
           v |-> [Addr |-> a, Val |-> tr.res], err |-> tr.err, panic |-> FALSE ]
    ELSE [ cache |-> st, v |-> st.res, err |-> st.resErr, panic |-> FALSE ]

\* scheduleHandler on the result r of schedule.Get: the status of the
\* response and its X-Refresh-Error header
scheduleHandler(r) ==
    IF r.panic THEN [ status |-> "panic", warning |-> NoError ]
    ELSE IF r.err # NoError THEN [ status |-> "500 Internal Server Error", warning |-> NoError ]
    ELSE [ status |-> "200 OK", warning |-> r.v.Val.Error ]

----------------------------------------------------------------------------
(* The state machine of the caches: calls of Get as time passes *)

\* CacheTime, StaleTime and Backoff as given to Cached: the defaults, short
\* times, negative times
CacheConfigs ==
    { CacheConfig(0, 0, FALSE), CacheConfig(1, 3, FALSE), CacheConfig(1, 3, TRUE),
      CacheConfig(1, -1, TRUE), CacheConfig(-1, 3, FALSE), CacheConfig(-1, -1, FALSE) }

\* the seconds between two calls
Steps == {0, 1, 3, DefaultCacheTime, DefaultCacheTime + DefaultStaleTime}

\* the errors of a fetch: the deadline of the timeout, a failed request
FetchErrors == {"context deadline exceeded", "get fusion data"}

FetchResults == {NoError} \cup FetchErrors

\* the results of a source of another kind which obeys the contract of
\* Cache: one of two values or none, with or without an error, but not no
\* value without an error
SourceResults ==
    {s \in [v : {Nil, Ptr(1, 1), Ptr(2, 1)}, err : FetchResults] :
        ~(IsNil(s.v) /\ s.err = NoError)}

\* the results of the transform of a cache of another kind
TransformErrors == {NoError, "transform"}

InitCache ==
    /\ pc = "serve"
    /\ feed = <<>>
    /\ updated = 1
    /\ ssStart = ZeroDate
    /\ ssEnd = ZeroDate
    /\ pgs = None
    /\ pks = <<>>
    /\ pgks = None
    /\ pki = 0
    /\ merges = <<>>
    /\ base = <<>>
    /\ ss = <<>>
    /\ err = NoError
    /\ events = <<>>
    /\ prev = None
    /\ mem = <<>>
    /\ schedule = None
    /\ newSchedule = None
    /\ filter = None
    /\ now = 1
    /\ source \in {"Cached", "Cache"}
    /\ cfg \in IF source = "Cached" THEN CacheConfigs ELSE {CacheConfig(0, 0, FALSE)}
    /\ cache = [ failure |-> ZeroTime, failureV |-> NoError, failureN |-> 0,
                 success |-> ZeroTime, successV |-> Nil ]
    /\ tcache = [ src |-> Nil, srcErr |-> NoError, res |-> NilResult, resErr |-> NoError ]
    /\ alloc = IF source = "Cache" THEN 2 ELSE 0
    /\ ret = NoCall
    /\ ncalls = 0
    /\ fetches = <<>>
    /\ call = None
    /\ reqs = <<>>
    /\ tmu = 0
    /\ parse = None

\* Get of the cache of the feed, by the renderer of another schedule
GetFeed ==
    /\ source = "Cached"
    /\ ncalls < MaxCalls
    /\ \E d \in Steps, fetch \in FetchResults :
        LET r == Cached(cache, cfg, now + d, alloc + 1, fetch)
            g == CacheFuncGet(r)
        IN  /\ now' = now + d
            /\ cache' = r.cache
            /\ alloc' = IF r.fetched /\ fetch = NoError THEN alloc + 1 ELSE alloc
            /\ ret' = [NoCall EXCEPT !.op = "Cached", !.v = g.v, !.err = g.err,
                                     !.panic = g.panic, !.fetched = r.fetched]
    /\ ncalls' = ncalls + 1
    /\ UNCHANGED <<prepareVars, envVars, afterCacheVars, cfg, tcache, source>>

\* a request to scheduleHandler: Get of the cache of the schedule, which
\* gets the feed from its cache and transforms it, and the response
ServeSchedule ==
    /\ source = "Cached"
    /\ ncalls < MaxCalls
    /\ \E d \in Steps, fetch \in FetchResults :
        LET r == Cached(cache, cfg, now + d, alloc + 1, fetch)
            a == IF r.fetched /\ fetch = NoError THEN alloc + 1 ELSE alloc
            g == CacheFuncGet(r)
            x == IF g.panic
                 THEN [ cache |-> tcache, v |-> NilResult, err |-> NoError, panic |-> TRUE ]
                 ELSE CachedTransform(tcache, g.v, g.err, a + 1, scheduleRenderer(g.v, g.err))
            h == IF x.panic THEN x ELSE CacheFuncGet(x)
            w == scheduleHandler(h)
        IN  /\ now' = now + d
            /\ cache' = r.cache
            /\ tcache' = x.cache
            /\ alloc' = IF x.cache.res.Addr = a + 1 THEN a + 1 ELSE a
            /\ ret' = [ op |-> "CachedTransform", src |-> g.v, srcErr |-> g.err,
                        v |-> h.v, err |-> h.err, panic |-> h.panic, fetched |-> r.fetched,
                        status |-> w.status, warning |-> w.warning ]
    /\ ncalls' = ncalls + 1
    /\ UNCHANGED <<prepareVars, envVars, afterCacheVars, cfg, source>>

\* Get of a CachedTransform whose source is a cache of another kind
GetTransformed ==
    /\ source = "Cache"
    /\ ncalls < MaxCalls
    /\ \E s \in SourceResults, e \in TransformErrors :
        LET x == CachedTransform(tcache, s.v, s.err, alloc + 1,
                                 [ res |-> [Error |-> s.err, Schedule |-> s.v], err |-> e ])
            h == IF x.panic THEN x ELSE CacheFuncGet(x)
        IN  /\ tcache' = x.cache
            /\ alloc' = IF x.cache.res.Addr = alloc + 1 THEN alloc + 1 ELSE alloc
            /\ ret' = [NoCall EXCEPT !.op = "CachedTransform", !.src = s.v, !.srcErr = s.err,
                                     !.v = h.v, !.err = h.err, !.panic = h.panic]
    /\ ncalls' = ncalls + 1
    /\ UNCHANGED <<prepareVars, envVars, afterCacheVars, now, cfg, cache, source>>

NextCache ==
    \/ GetFeed
    \/ ServeSchedule
    \/ GetTransformed

SpecCache == InitCache /\ [][NextCache]_vars

----------------------------------------------------------------------------
(* The timeout of Cached: forceContextCancel runs the fetch in a goroutine *)
(* of its own and returns when the context is done or the fetch returns.   *)
(* The mutex of Cached is held for the whole call, so one call at a time   *)
(* waits; a fetch which was abandoned runs on beside the later calls.      *)

\* the value of the default of Timeout, in seconds
DefaultTimeout == 7

DeadlineExceeded == "context deadline exceeded"

\* the configuration with the timeout Cached works with, 0 for no timeout
WithTimeout(c, timeout) ==
    [ CacheTime |-> c.CacheTime, StaleTime |-> c.StaleTime, Backoff |-> c.Backoff,
      Timeout |-> negZeroDef(timeout, DefaultTimeout) ]

\* the error forceContextCancel returns: the one of the context in the case
\* ctx.Done, the one the fetch has written to err in the case ret
\* the variable err in both cases instead
forceContextCancelErr(case, fetchErr) == fetchErr

forceContextCancel(case, fetchErr) ==
    IF case = "ctx.Done" THEN DeadlineExceeded ELSE fetchErr

TimeoutConfigs ==
    { WithTimeout(CacheConfig(1, 3, FALSE), 2), WithTimeout(CacheConfig(1, 3, TRUE), 0),
      WithTimeout(CacheConfig(-1, -1, FALSE), 2), WithTimeout(CacheConfig(1, 3, FALSE), -1) }

\* the seconds between the return of a call and the next call
TimeoutSteps == {0, 1, 3}

InitTimeout ==
    /\ pc = "serve"
    /\ feed = <<>>
    /\ updated = 1
    /\ ssStart = ZeroDate
    /\ ssEnd = ZeroDate
    /\ pgs = None
    /\ pks = <<>>
    /\ pgks = None
    /\ pki = 0
    /\ merges = <<>>
    /\ base = <<>>
    /\ ss = <<>>
    /\ err = NoError
    /\ events = <<>>
    /\ prev = None
    /\ mem = <<>>
    /\ schedule = None
    /\ newSchedule = None
    /\ filter = None
    /\ now = 1
    /\ cfg \in TimeoutConfigs
    /\ cache = [ failure |-> ZeroTime, failureV |-> NoError, failureN |-> 0,
                 success |-> ZeroTime, successV |-> Nil ]
    /\ tcache = None
    /\ source = "Cached"
    /\ alloc = 0
    /\ ret = NoCall
    /\ ncalls = 0
    /\ fetches = <<>>
    /\ call = None
    /\ reqs = <<>>
    /\ tmu = 0
    /\ parse = None

\* a call of Get up to the fetch: it returns the cached value, or it starts
\* the goroutine of the fetch and waits in the select
CallFeed ==
    /\ call = None
    /\ ncalls < MaxCalls
    /\ \E d \in TimeoutSteps :
        LET r == Cached(cache, cfg, now + d, alloc + 1, NoError)
        IN  /\ now' = now + d
            /\ IF r.fetched
               THEN /\ fetches' = Append(fetches, [ state |-> "running", err |-> NoError,
                                                    abandoned |-> FALSE ])
                    /\ call' = [ t |-> now + d, g |-> Len(fetches) + 1, done |-> FALSE ]
                    /\ UNCHANGED <<cache, ret>>
               ELSE /\ cache' = r.cache
                    /\ ret' = [NoCall EXCEPT !.op = "Cached", !.v = r.v, !.err = r.err]
                    /\ UNCHANGED <<fetches, call>>
    /\ ncalls' = ncalls + 1
    /\ UNCHANGED <<prepareVars, envVars, cfg, tcache, alloc, source, reqs, tmu, parse>>

\* the fetch of goroutine g returns: it writes its result and closes ret
FetchReturns ==
    /\ \E g \in DOMAIN fetches, e \in FetchResults :
        /\ fetches[g].state = "running"
        /\ fetches' = [fetches EXCEPT ![g].state = "returned", ![g].err = e]
    /\ UNCHANGED <<prepareVars, envVars, cacheVars, call, reqs, tmu, parse>>

\* the deadline of the context of the waiting call passes
Deadline ==
    /\ call # None
    /\ cfg.Timeout > 0
    /\ ~call.done
    /\ call' = [call EXCEPT !.done = TRUE]
    /\ now' = IF now < call.t + cfg.Timeout THEN call.t + cfg.Timeout ELSE now
    /\ UNCHANGED <<prepareVars, envVars, cfg, cache, tcache, alloc, source, ret, ncalls,
                   fetches, reqs, tmu, parse>>

\* the select of forceContextCancel takes the case named by case, and the
\* call stores what it got and returns
Select(case) ==
    /\ call # None
    /\ IF case = "ctx.Done" THEN call.done ELSE fetches[call.g].state = "returned"
    /\ LET r == Cached(cache, cfg, call.t, alloc + 1,
                       forceContextCancel(case, fetches[call.g].err))
       IN  /\ cache' = r.cache
           /\ alloc' = IF IsNil(r.cache.successV) \/ r.cache.successV.Addr # alloc + 1
                        THEN alloc ELSE alloc + 1
           /\ ret' = [NoCall EXCEPT !.op = "Cached", !.v = r.v, !.err = r.err,
                                    !.fetched = TRUE]
    /\ fetches' = [fetches EXCEPT ![call.g].abandoned = (fetches[call.g].state = "running")]
    /\ call' = None
    /\ UNCHANGED <<prepareVars, envVars, now, cfg, tcache, source, ncalls, reqs, tmu, parse>>

SelectDone == Select("ctx.Done")

SelectRet == Select("ret")

NextTimeout ==
    \/ CallFeed
    \/ FetchReturns
    \/ Deadline
    \/ SelectDone
    \/ SelectRet

SpecTimeout == InitTimeout /\ [][NextTimeout]_vars

----------------------------------------------------------------------------
(* The mutex of CachedTransform: requests served by goroutines of their own *)
(* call Get of one schedule cache, each step of a call taken on its own.    *)

\* the goroutines which serve requests at the same time
MaxGoroutines == 2

Goroutines == 1 .. MaxGoroutines

\* a goroutine between two calls
NoRequest ==
    [ pc |-> "idle", src |-> Nil, srcErr |-> NoError, cleared |-> FALSE,
      v |-> NilResult, err |-> NoError ]

\* cache.mu.Lock() returns: the mutex mu is free
\* without waiting instead
MutexLockNoWait(mu) == TRUE

MutexLock(mu) == mu = 0

\* the configurations of the cache of the feed, and the seconds between two
\* calls of its Get
WriterConfigs == { CacheConfig(1, 3, FALSE), CacheConfig(-1, -1, FALSE) }

WriterSteps == {0, 1, 3}

InitWriter ==
    /\ pc = "serve"
    /\ feed = <<>>
    /\ updated = 1
    /\ ssStart = ZeroDate
    /\ ssEnd = ZeroDate
    /\ pgs = None
    /\ pks = <<>>
    /\ pgks = None
    /\ pki = 0
    /\ merges = <<>>
    /\ base = <<>>
    /\ ss = <<>>
    /\ err = NoError
    /\ events = <<>>
    /\ prev = None
    /\ mem = <<>>
    /\ schedule = None
    /\ newSchedule = None
    /\ filter = None
    /\ now = 1
    /\ cfg \in WriterConfigs
    /\ cache = [ failure |-> ZeroTime, failureV |-> NoError, failureN |-> 0,
                 success |-> ZeroTime, successV |-> Nil ]
    /\ tcache = [ src |-> Nil, srcErr |-> NoError, res |-> NilResult, resErr |-> NoError ]
    /\ source = "Cached"
    /\ alloc = 0
    /\ ret = NoCall
    /\ ncalls = 0
    /\ fetches = <<>>
    /\ call = None
    /\ reqs = [g \in Goroutines |-> NoRequest]
    /\ tmu = 0
    /\ parse = None

writerIdle == <<prepareVars, envVars, cfg, source, ret, fetches, call, parse>>

\* goroutine g calls Get and gets the mutex
Lock(g) ==
    /\ reqs[g].pc = "idle"
    /\ ncalls < MaxCalls
    /\ MutexLock(tmu)
    /\ tmu' = g
    /\ reqs' = [reqs EXCEPT ![g] = [NoRequest EXCEPT !.pc = "locked"]]
    /\ ncalls' = ncalls + 1
    /\ UNCHANGED <<writerIdle, now, cache, tcache, alloc>>

\* source.Get() of the cache of the feed returns in goroutine g: without a
\* value the result is cleared, with a changed value or error the transform
\* starts
GetSource(g) ==
    /\ reqs[g].pc = "locked"
    /\ \E d \in WriterSteps, fetch \in FetchResults :
        LET r == Cached(cache, cfg, now + d, alloc + 1, fetch)
            s == CacheFuncGet(r)
        IN  /\ ~s.panic
            /\ now' = now + d
            /\ cache' = r.cache
            /\ alloc' = IF r.fetched /\ fetch = NoError THEN alloc + 1 ELSE alloc
            /\ IF s.err # NoError /\ IsNil(s.v)
               THEN /\ tcache' = [tcache EXCEPT !.res = NilResult, !.resErr = NoError]
                    /\ reqs' = [reqs EXCEPT ![g].pc = "return", ![g].cleared = TRUE,
                                            ![g].srcErr = s.err]
               ELSE /\ reqs' = [reqs EXCEPT
                                    ![g].src = s.v, ![g].srcErr = s.err,
                                    ![g].pc = IF tcache.src.Addr # s.v.Addr
                                                 \/ tcache.srcErr # s.err
                                              THEN "transform" ELSE "return"]
                    /\ UNCHANGED tcache
    /\ UNCHANGED <<writerIdle, ncalls, tmu>>

\* the transform returns in goroutine g, and its result is stored
Transformed(g) ==
    /\ reqs[g].pc = "transform"
    /\ \E e \in TransformErrors :
        tcache' = [ src |-> reqs[g].src, srcErr |-> reqs[g].srcErr,
                    res |-> [ Addr |-> alloc + 1,
                              Val |-> [Error |-> reqs[g].srcErr, Schedule |-> reqs[g].src] ],
                    resErr |-> e ]
    /\ alloc' = alloc + 1
    /\ reqs' = [reqs EXCEPT ![g].pc = "return"]
    /\ UNCHANGED <<writerIdle, now, cache, ncalls, tmu>>

\* Get returns in goroutine g, and the deferred Unlock runs
Return(g) ==
    /\ reqs[g].pc = "return"
    /\ reqs' = [reqs EXCEPT ![g].pc = "returned",
                            ![g].v = IF reqs[g].cleared THEN NilResult ELSE tcache.res,
                            ![g].err = IF reqs[g].cleared THEN reqs[g].srcErr
                                       ELSE tcache.resErr]
    /\ tmu' = 0
    /\ UNCHANGED <<writerIdle, now, cache, tcache, alloc, ncalls>>

\* the request of goroutine g is answered, the goroutine takes another one
Respond(g) ==
    /\ reqs[g].pc = "returned"
    /\ reqs' = [reqs EXCEPT ![g] = NoRequest]
    /\ UNCHANGED <<writerIdle, now, cache, tcache, alloc, ncalls, tmu>>

NextWriter ==
    \/ \E g \in Goroutines : Lock(g)
    \/ \E g \in Goroutines : GetSource(g)
    \/ \E g \in Goroutines : Transformed(g)
    \/ \E g \in Goroutines : Return(g)
    \/ \E g \in Goroutines : Respond(g)

SpecWriter == InitWriter /\ [][NextWriter]_vars

----------------------------------------------------------------------------
(* parseSchedules and the start of main. A line is the sequence of its      *)
(* fields between blanks: the key is the first field, the value the rest.   *)

\* the lines of the longest file
MaxLines == 3

\* the strings strconv.ParseInt takes, with their values
Numbers == ("0" :> 0) @@ ("1" :> 1) @@ ("110" :> 110)

\* the values the checks of color and icon take
HexColors == {<<"fff">>, <<"a0b1c2">>}

IcoBase64 == {<<"AAABAA==">>}

\* the nil Filter of a schedule, and the Filters with the functions fs
NilFilter == [ Nil |-> TRUE, Funcs |-> <<>> ]

FiltersOf(fs) == [ Nil |-> FALSE, Funcs |-> fs ]

\* &schedule{Index: index, SchoolID: schoolID}
NewSchedule(index, schoolID) ==
    [ Index |-> index, SchoolID |-> schoolID, Unlisted |-> FALSE,
      Options |-> [ Color |-> <<>>, Icon |-> <<>>, Title |-> <<>>, Description |-> <<>>,
                    Footer |-> <<>>, UpcomingDays |-> 0 ],
      Filter |-> NilFilter ]

\* the state of parseSchedules before the first line of the file lines
ParseStart(lines) ==
    [ lines |-> lines, line |-> 0, cfg |-> <<>>, cur |-> <<>>, err |-> NoError,
      status |-> "scanning" ]

\* return nil, err
ParseFail(st, e) == [st EXCEPT !.cfg = <<>>, !.err = e, !.status = "returned"]

\* the number of arguments the filter action act takes: n of them are fine
\* any number for a known action instead
FilterArgsAny(act, n) == TRUE

FilterArgs(act, n) ==
    CASE act \in {"in", "notIn"} -> n >= 1
      [] act \in {"trimPrefix", "trimSuffix", "contains", "notContains"} -> n = 1
      [] act \in {"replace", "map"} -> n = 2

FilterActions ==
    {"in", "notIn", "trimPrefix", "trimSuffix", "contains", "notContains", "replace", "map"}

FilterKeys == {"category", "category_id", "location", "activity"}

FilterPrefix == "filter."

\* the keys with the prefix "filter." among the keys of the files, with the
\* rest of the key
FilterKeyOf ==
    ("filter.category" :> "category") @@ ("filter.category_id" :> "category_id")
    @@ ("filter.location" :> "location") @@ ("filter.activity" :> "activity")
    @@ ("filter.room" :> "room") @@ ("filter." :> "")

\* a line "schedule <value>": the fields before and after the last blank.
\* An extended schedule is a copy of the other one, with clones of its footer
\* and its filters; the type assertion on the Filter panics when it is nil
ScheduleLine(st, value) ==
    LET a1 == IF Len(value) >= 2 THEN SubSeq(value, 1, Len(value) - 1) ELSE <<>>
        a2 == IF Len(value) >= 2 THEN value[Len(value)] ELSE ""
    IN  IF a2 = "" THEN ParseFail(st, "missing school_id")
        ELSE IF a1 \in DOMAIN st.cfg THEN ParseFail(st, "schedule path already used")
        ELSE IF a2 \in DOMAIN Numbers
        THEN [st EXCEPT !.cur = a1,
                        !.cfg = (a1 :> NewSchedule(Cardinality(DOMAIN st.cfg), Numbers[a2]))
                                @@ st.cfg]
        ELSE IF <<a2>> \in DOMAIN st.cfg
        THEN LET dup == st.cfg[<<a2>>]
             IN  IF dup.Filter.Nil
                 THEN [st EXCEPT !.cfg = <<>>, !.status = "panic"]
                 ELSE [st EXCEPT !.cur = a1, !.cfg = (a1 :> dup) @@ st.cfg]
        ELSE ParseFail(st, "not a valid school ID or path of schedule to extend")

\* a line "filter.<key> <value>" for the schedule cur
FilterLine(st, key, arg) ==
    IF Len(arg) = 0 THEN ParseFail(st, "missing filter action")
    ELSE IF arg[1] \notin FilterActions THEN ParseFail(st, "unknown filter action")
    ELSE IF ~FilterArgs(arg[1], Len(arg) - 1)
    THEN ParseFail(st, "wrong number of arguments for filter action")
    ELSE IF key \notin FilterKeys THEN ParseFail(st, "unknown filter key")
    ELSE [st EXCEPT !.cfg[st.cur].Filter =
                        FiltersOf(Append(@.Funcs, FilterFuncOf(key, arg[1], Tail(arg))))]

\* a line with another key than schedule
PropertyLine(st, key, value) ==
    IF st.cur = <<>> THEN ParseFail(st, "expected schedule line before properties")
    ELSE CASE key = "color" ->
                IF value \in HexColors THEN [st EXCEPT !.cfg[st.cur].Options.Color = value]
                ELSE ParseFail(st, "invalid hex color")
           [] key = "icon" ->
                IF value \in IcoBase64 THEN [st EXCEPT !.cfg[st.cur].Options.Icon = value]
                ELSE ParseFail(st, "invalid icon")
           [] key = "title" -> [st EXCEPT !.cfg[st.cur].Options.Title = value]
           [] key = "desc" -> [st EXCEPT !.cfg[st.cur].Options.Description = value]
           [] key = "footer" ->
                [st EXCEPT !.cfg[st.cur].Options.Footer =
                               Append(IF value = <<>> THEN <<>> ELSE @, value)]
           [] key = "upcoming" ->
                IF Len(value) # 1 \/ value[1] \notin DOMAIN Numbers
                THEN ParseFail(st, "invalid number")
                ELSE IF Numbers[value[1]] < 1 \/ Numbers[value[1]] > 90
                THEN ParseFail(st, "upcoming days out of range")
                ELSE [st EXCEPT !.cfg[st.cur].Options.UpcomingDays = Numbers[value[1]]]
           [] key = "unlisted" ->
                IF value # <<>> THEN ParseFail(st, "does not take a value")
                ELSE [st EXCEPT !.cfg[st.cur].Unlisted = TRUE]
           [] OTHER ->
                IF key \notin DOMAIN FilterKeyOf THEN ParseFail(st, "unknown property")
                ELSE FilterLine(st, FilterKeyOf[key], value)

\* one turn of the loop of parseSchedules on the line l
ParseLine(st, l) ==
    LET at == [st EXCEPT !.line = @ + 1]
    IN  IF l = <<>> \/ l[1] = "#" THEN at
        ELSE IF l[1] = "schedule" THEN ScheduleLine(at, Tail(l))
        ELSE PropertyLine(at, l[1], Tail(l))

\* the lines of the files: schedules with a school, extending another, with
\* a path already used and without a second field, properties, and filter
\* lines which are fine and which are not
ConfigLines ==
    { <<"schedule", "/a", "110">>, <<"schedule", "/b", "/a">>, <<"schedule", "/c", "/a">>,
      <<"schedule", "/b">>,
      <<"footer", "x">>, <<"footer">>, <<"unlisted">>, <<"#", "comment">>,
      <<"filter.activity", "in", "Yoga">>, <<"filter.location", "notContains", "Gym">>,
      <<"filter.room", "in", "Yoga">>, <<"filter.activity", "matches", "Yoga">>,
      <<"filter.activity", "map", "Yoga">>, <<"filter.category">> }

ConfigFiles == UNION {[1..n -> ConfigLines] : n \in 1..MaxLines}

InitParse ==
    /\ pc = "parse"
    /\ feed = <<>>
    /\ updated = 1
    /\ ssStart = ZeroDate
    /\ ssEnd = ZeroDate
    /\ pgs = None
    /\ pks = <<>>
    /\ pgks = None
    /\ pki = 0
    /\ merges = <<>>
    /\ base = <<>>
    /\ ss = <<>>
    /\ err = NoError
    /\ events = <<>>
    /\ prev = None
    /\ mem = <<>>
    /\ schedule = None
    /\ newSchedule = None
    /\ filter = None
    /\ now = ZeroTime
    /\ cfg = None
    /\ cache = None
    /\ tcache = None
    /\ alloc = 0
    /\ source = "none"
    /\ ret = NoCall
    /\ ncalls = 0
    /\ fetches = <<>>
    /\ call = None
    /\ reqs = <<>>
    /\ tmu = 0
    /\ \E f \in ConfigFiles : parse = ParseStart(f)

parseIdle == <<prepareVars, envVars, cacheVars, concVars>>

\* sc.Scan() gives the next line, and the loop takes its turn
ScanLine ==
    /\ parse.status = "scanning"
    /\ parse.line < Len(parse.lines)
    /\ parse' = ParseLine(parse, parse.lines[parse.line + 1])
    /\ UNCHANGED parseIdle

\* sc.Scan() is at the end of the file: return cfg, nil
ScanEnd ==
    /\ parse.status = "scanning"
    /\ parse.line = Len(parse.lines)
    /\ parse' = [parse EXCEPT !.status = "returned"]
    /\ UNCHANGED parseIdle

\* main with the result of parseSchedules: it exits on an error and without
\* a schedule, and builds the handlers of the schedules otherwise
Main ==
    /\ parse.status = "returned"
    /\ parse' = [parse EXCEPT !.status = IF parse.err # NoError \/ DOMAIN parse.cfg = {}
                                        THEN "exit" ELSE "handlers"]
    /\ UNCHANGED parseIdle

NextParse ==
    \/ ScanLine
    \/ ScanEnd
    \/ Main

SpecParse == InitParse /\ [][NextParse]_vars

----------------------------------------------------------------------------
(* The test's view of a feed and of a schedule: dumpList *)

\* the comparison function of dumpList: date, time range, activity, location
DumpItemLess(a, b) ==
    IF a.Date # b.Date THEN a.Date < b.Date
    ELSE IF a.TimeRange # b.TimeRange THEN TimeRangeLess(a.TimeRange, b.TimeRange)
    ELSE IF a.Activity # b.Activity THEN NameLess(a.Activity, b.Activity)
    ELSE IF a.Location # b.Location THEN NameLess(a.Location, b.Location)
    ELSE FALSE

\* slices.SortStableFunc: position of dl[k] is the number of items before it
SortStable(dl) ==
    LET pos(k) ==
            Cardinality({j \in DOMAIN dl :
                \/ DumpItemLess(dl[j], dl[k])
                \/ (~DumpItemLess(dl[k], dl[j]) /\ j < k)}) + 1
    IN  [p \in DOMAIN dl |-> dl[CHOOSE k \in DOMAIN dl : pos(k) = p]]

\* dumpList: the sorted items without the ones on the date of the first one
dumpList(dl) ==
    LET sorted == SortStable(dl)
    IN  SelectSeq(sorted, LAMBDA x : x.Date # sorted[1].Date)

dumpListFusion(A) ==
    dumpList([i \in DOMAIN A |->
        [ Date |-> A[i].Date, TimeRange |-> A[i].TimeRange, Activity |-> A[i].Activity,
          Location |-> A[i].Location, Cancelled |-> A[i].IsCancelled ]])

\* the items dumpListSchedule appends for the calls of every instance
ScheduleItems(S, calls) ==
    LET il == InstanceList(S)
        items(n) == [k \in DOMAIN calls[n] |->
                        [ Date |-> calls[n][k].Date, TimeRange |-> calls[n][k].TimeRange,
                          Activity |-> il[n].Activity, Location |-> il[n].Location,
                          Cancelled |-> calls[n][k].Cancelled ]]
        f[n \in 0..Len(il)] == IF n = 0 THEN <<>> ELSE f[n - 1] \o items(n)
    IN  f[Len(il)]

dumpListSchedule(S, calls) == dumpList(ScheduleItems(S, calls))

----------------------------------------------------------------------------
(* Vocabulary of the properties *)

\* Prepare has returned
Returned == pc \in {"returned", "expanded", "panic"}

\* the instances of the returned schedule, in tree order
Insts == InstanceList(ss)

\* the exceptions of instance n
Exc(n) == Range(Insts[n].Instance.Exceptions)

\* the source occurrences instance n covers
Covered(n) ==
    {fai \in DOMAIN feed :
        /\ feed[fai].Activity = Insts[n].Activity
        /\ feed[fai].Location = Insts[n].Location
        /\ base[fai] = Insts[n].Instance.Time}

CoveredOn(n, wd) == {fai \in Covered(n) : feed[fai].Date % DaysPerWeek = wd}

Weekdays == 0..(DaysPerWeek - 1)

SpanDates == ssStart..ssEnd

----------------------------------------------------------------------------
(* C1 *)

FeedTuples ==
    {<<feed[i].Activity, feed[i].Location, feed[i].Date, feed[i].TimeRange, feed[i].IsCancelled>> :
        i \in DOMAIN feed}

EventTuples ==
    {<<it.Activity, it.Location, it.Date, it.TimeRange, it.Cancelled>> :
        it \in {x \in Range(ScheduleItems(ss, events)) : \E i \in DOMAIN feed : feed[i].Date = x.Date}}

\* C1: round trip.  Once every instance of the returned schedule is expanded,
\* the events on dates of the feed, as (activity, location, date, time range,
\* cancelled), are exactly the occurrences of the feed.  Stated for the feeds
\* with unique keys whose first date is not before the update, which the
\* first-day rule of the exceptions leaves alone.
RoundTrip ==
    (pc = "expanded" /\ UniqueKeys(feed) /\ ~(ssStart < updated))
        => EventTuples = FeedTuples

----------------------------------------------------------------------------
(* C2 *)

----------------------------------------------------------------------------
(* C3 *)

\* C3: determinism.  A second call of Prepare with the same occurrences in
\* another order returns the same activities, locations, instances and
\* exceptions as the first; stated for the feeds with unique keys.
Determinism ==
    (pc = "returned" /\ prev # None /\ UniqueKeys(feed)) => ss = prev

----------------------------------------------------------------------------
(* C4 *)

\* C4: merge legality.  No instance of the returned schedule covers two
\* occurrences on the same date; stated for the feeds with unique keys.
NoDoubleBooking ==
    (Returned /\ UniqueKeys(feed))
        => \A n \in DOMAIN Insts : \A i, j \in Covered(n) :
               i # j => feed[i].Date # feed[j].Date

----------------------------------------------------------------------------
(* C5 *)

\* C5: the round trip of the test.  The sorted list of the expanded events
\* without the ones on its earliest date equals the sorted list of the feed
\* without the ones on its earliest date; stated for the feeds with unique keys.
TestRoundTrip ==
    (pc = "expanded" /\ UniqueKeys(feed))
        => dumpListSchedule(ss, events) = dumpListFusion(feed)

----------------------------------------------------------------------------
(* C6 *)

\* the date of the last occurrence instance n covers on weekday wd
LastOn(n, wd) == Max({feed[fai].Date : fai \in CoveredOn(n, wd)})

HasLastOnWeekday(n, d) == \E x \in Exc(n) : x.Date = d /\ x.LastOnWeekday

NoExcludedAfter(n, wd, d) ==
    \A x \in Exc(n) : (x.Excluded /\ x.Date % DaysPerWeek = wd) => ~(d < x.Date)

\* C6 as claimed: when the last occurrence of an instance on an active weekday
\* is within the final 7 days of the span, its date carries a last-on-weekday
\* exception and no date of the weekday after it is excluded.
LastOnWeekdayWithinWindow ==
    Returned =>
        \A n \in DOMAIN Insts : \A wd \in Weekdays :
            (CoveredOn(n, wd) # {} /\ LastOn(n, wd) > ssEnd - LastWindow)
                => (HasLastOnWeekday(n, LastOn(n, wd)) /\ NoExcludedAfter(n, wd, LastOn(n, wd)))

\* C6 as amended: on a weekday with more than one occurrence of the instance,
\* the date of the last one carries a last-on-weekday exception exactly when it
\* is more than 7 days before the end of the span, and then no date of the
\* weekday after it is excluded; no other date carries a last-on-weekday exception.
LastOnWeekdayBeforeWindow ==
    Returned =>
        \A n \in DOMAIN Insts :
            /\ \A wd \in Weekdays :
                Cardinality(CoveredOn(n, wd)) > 1 =>
                    /\ HasLastOnWeekday(n, LastOn(n, wd)) <=> (LastOn(n, wd) < ssEnd - LastWindow)
                    /\ HasLastOnWeekday(n, LastOn(n, wd)) => NoExcludedAfter(n, wd, LastOn(n, wd))
            /\ \A x \in Exc(n) :
                x.LastOnWeekday =>
                    /\ Cardinality(CoveredOn(n, x.Date % DaysPerWeek)) > 1
                    /\ x.Date = LastOn(n, x.Date % DaysPerWeek)

\* a weekday which ends more than 7 days before the span does, with a later
\* date of the weekday inside the span
LastOnWeekdayWitness ==
    /\ Returned
    /\ \E n \in DOMAIN Insts : \E wd \in Weekdays :
        /\ Cardinality(CoveredOn(n, wd)) > 1
        /\ LastOn(n, wd) < ssEnd - LastWindow
        /\ HasLastOnWeekday(n, LastOn(n, wd))
        /\ \E d \in SpanDates : d % DaysPerWeek = wd /\ LastOn(n, wd) < d

----------------------------------------------------------------------------
(* C7 *)

HasOnlyOnWeekday(n, d) == \E x \in Exc(n) : x.Date = d /\ x.OnlyOnWeekday

NoExcludedOn(n, wd) == \A x \in Exc(n) : x.Excluded => x.Date % DaysPerWeek # wd

\* the occurrences of the (activity, location, weekday) partition of fai
PartitionOf(fai) ==
    {j \in DOMAIN feed : PartitionKey(feed[j]) = PartitionKey(feed[fai])}

\* C7 as claimed: the date of an occurrence carries an only-on-weekday
\* exception exactly when the occurrence is the only one of its (activity,
\* location, weekday) partition, and then no date of the weekday is excluded;
\* stated for the feeds with unique keys.
OnlyOnWeekdayByPartition ==
    (Returned /\ UniqueKeys(feed)) =>
        \A n \in DOMAIN Insts : \A fai \in Covered(n) :
            /\ HasOnlyOnWeekday(n, feed[fai].Date) <=> (Cardinality(PartitionOf(fai)) = 1)
            /\ HasOnlyOnWeekday(n, feed[fai].Date) => NoExcludedOn(n, feed[fai].Date % DaysPerWeek)

\* C7 as amended: the date of an occurrence carries an only-on-weekday
\* exception exactly when the occurrence is the only one on its weekday among
\* the occurrences its instance covers, and then no date of the weekday is
\* excluded in that instance.
OnlyOnWeekdayByInstance ==
    Returned =>
        \A n \in DOMAIN Insts : \A fai \in Covered(n) :
            /\ HasOnlyOnWeekday(n, feed[fai].Date)
                   <=> (Cardinality(CoveredOn(n, feed[fai].Date % DaysPerWeek)) = 1)
            /\ HasOnlyOnWeekday(n, feed[fai].Date) => NoExcludedOn(n, feed[fai].Date % DaysPerWeek)

\* an only-on-weekday exception in a partition of several occurrences, with
\* other dates of the weekday inside the span
OnlyOnWeekdayWitness ==
    /\ Returned
    /\ UniqueKeys(feed)
    /\ \E n \in DOMAIN Insts : \E fai \in Covered(n) :
        /\ HasOnlyOnWeekday(n, feed[fai].Date)
        /\ Cardinality(PartitionOf(fai)) > 1
        /\ \E d \in SpanDates : d # feed[fai].Date /\ d % DaysPerWeek = feed[fai].Date % DaysPerWeek

----------------------------------------------------------------------------
(* C8 *)

HasCancelled(n, d) == \E x \in Exc(n) : x.Date = d /\ x.Cancelled

HasTime(n, d) == \E x \in Exc(n) : x.Date = d /\ x.Time # ZeroTimeRange

\* C8: the kind of exception per date.  For an occurrence an instance covers:
\* a cancelled exception on its date if it is cancelled, otherwise a time
\* exception with its own time range if that differs from the base, otherwise
\* neither; and no excluded exception on a date with a covered occurrence.
\* Stated for the feeds with unique keys.
PerDateException ==
    (Returned /\ UniqueKeys(feed)) =>
        \A n \in DOMAIN Insts : \A fai \in Covered(n) :
            LET d == feed[fai].Date
            IN  /\ feed[fai].IsCancelled => HasCancelled(n, d)
                /\ (~feed[fai].IsCancelled /\ feed[fai].TimeRange # Insts[n].Instance.Time)
                       => \E x \in Exc(n) : x.Date = d /\ x.Time = feed[fai].TimeRange
                /\ (~feed[fai].IsCancelled /\ feed[fai].TimeRange = Insts[n].Instance.Time)
                       => (~HasCancelled(n, d) /\ ~HasTime(n, d))
                /\ \A x \in Exc(n) : x.Excluded => x.Date # d

----------------------------------------------------------------------------
(* C9 *)

\* C9: first-date truncation.  When an instance covers no occurrence on the
\* first date of the schedule and that date is before the date of the update,
\* the instance has no exception of any kind on that date.
FirstDateIgnored ==
    Returned =>
        \A n \in DOMAIN Insts :
            ((\A fai \in Covered(n) : feed[fai].Date # ssStart) /\ ssStart < updated)
                => \A x \in Exc(n) : x.Date # ssStart

\* an instance with several later occurrences on the weekday of the first
\* date and none on the first date, the first date being before the update
FirstDateWitness ==
    /\ Returned
    /\ ssStart < updated
    /\ \E n \in DOMAIN Insts :
        /\ \A fai \in Covered(n) : feed[fai].Date # ssStart
        /\ Cardinality(CoveredOn(n, ssStart % DaysPerWeek)) > 1

----------------------------------------------------------------------------
(* C10 *)

\* the dates Expand is to call fn for
Emitted(n) ==
    {d \in SpanDates :
        /\ Insts[n].Instance.Days[d % DaysPerWeek]
        /\ \A x \in Exc(n) :
            /\ ~(x.Date = d /\ x.Excluded)
            /\ ~(x.OnlyOnWeekday /\ x.Date # d /\ x.Date % DaysPerWeek = d % DaysPerWeek)
            /\ ~(x.LastOnWeekday /\ x.Date < d /\ x.Date % DaysPerWeek = d % DaysPerWeek)}

\* C10: the result of Expand.  For every instance of the returned schedule the
\* calls of fn are in strictly ascending date order, their dates are exactly
\* the span dates on an active weekday which are not excluded, not another
\* date on the weekday of an only-on-weekday exception and not after a
\* last-on-weekday exception of the weekday; a call is cancelled exactly when
\* its date has a cancelled exception and has the time range of the time
\* exception of its date, or else the base time range; the dates marked
\* only-on-weekday or last-on-weekday are called.
ExpandResult ==
    pc = "expanded" =>
        \A n \in DOMAIN Insts :
            LET calls == events[n]
            IN  /\ \A k \in 1..(Len(calls) - 1) : calls[k].Date < calls[k + 1].Date
                /\ {calls[k].Date : k \in DOMAIN calls} = Emitted(n)
                /\ \A k \in DOMAIN calls :
                    /\ calls[k].Cancelled <=> HasCancelled(n, calls[k].Date)
                    /\ IF HasTime(n, calls[k].Date)
                       THEN \E x \in Exc(n) : x.Date = calls[k].Date /\ x.Time = calls[k].TimeRange
                       ELSE calls[k].TimeRange = Insts[n].Instance.Time
                /\ \A x \in Exc(n) :
                    (x.OnlyOnWeekday \/ x.LastOnWeekday) => \E k \in DOMAIN calls : calls[k].Date = x.Date

\* an expanded instance with a date skipped after a last-on-weekday exception,
\* a cancelled call and a call with a replaced time range
ExpandWitness ==
    /\ pc = "expanded"
    /\ \E n \in DOMAIN Insts :
        /\ \E x \in Exc(n) : \E d \in SpanDates :
            x.LastOnWeekday /\ x.Date < d /\ x.Date % DaysPerWeek = d % DaysPerWeek
        /\ \E k \in DOMAIN events[n] : events[n][k].TimeRange # Insts[n].Instance.Time
        /\ \E k \in DOMAIN events[n] : events[n][k].Cancelled

----------------------------------------------------------------------------
(* C11 *)

\* the number of the fields of exception x which are set
FieldsSet(x) ==
    (IF x.OnlyOnWeekday THEN 1 ELSE 0) + (IF x.LastOnWeekday THEN 1 ELSE 0)
        + (IF x.Cancelled THEN 1 ELSE 0) + (IF x.Excluded THEN 1 ELSE 0)
        + (IF x.Time # ZeroTimeRange THEN 1 ELSE 0)

----------------------------------------------------------------------------
(* C12 *)

\* C12: every exception of the returned schedule is dated within the span of
\* the schedule and on a weekday which is active in its instance, and the
\* sanity check of the renderer does not panic.
ExceptionOnActiveWeekday ==
    Returned =>
        /\ \A n \in DOMAIN Insts : \A x \in Exc(n) :
            /\ x.Date \in SpanDates
            /\ Insts[n].Instance.Days[x.Date % DaysPerWeek]
        /\ ~SanityPanics(ss)

\* an instance with exceptions, in a schedule whose span has dates on
\* weekdays the instance is not active on
ExceptionOnActiveWeekdayWitness ==
    /\ Returned
    /\ \E n \in DOMAIN Insts :
        /\ Exc(n) # {}
        /\ \E x \in Exc(n) : x.Excluded
        /\ \E d \in SpanDates : ~Insts[n].Instance.Days[d % DaysPerWeek]

----------------------------------------------------------------------------
(* C13 *)

\* the instances of every location of the returned schedule
InstanceLists ==
    UNION {{ss[ai].Locations[li].Instances : li \in DOMAIN ss[ai].Locations} : ai \in DOMAIN ss}

\* C13 as claimed: the instances of a location are not empty, in ascending
\* order, and no two of them have the same start time; stated for the feeds
\* with unique keys.
InstancesUniqueByStart ==
    (Returned /\ UniqueKeys(feed)) =>
        \A is \in InstanceLists :
            /\ is # <<>>
            /\ \A i, j \in DOMAIN is : i < j => is[i].Time[1] < is[j].Time[1]

\* C13 as amended: the instances of a location are not empty and strictly
\* ascending by time range, the start first and the end second, so no two
\* have the same time range; two may have the same start time.
InstancesUniqueByTimeRange ==
    Returned =>
        \A is \in InstanceLists :
            /\ is # <<>>
            /\ \A i, j \in DOMAIN is :
                i < j => \/ is[i].Time[1] < is[j].Time[1]
                         \/ (is[i].Time[1] = is[j].Time[1] /\ is[i].Time[2] < is[j].Time[2])

\* a feed with unique keys and a location with two instances of the same start time
InstancesWitness ==
    /\ Returned
    /\ UniqueKeys(feed)
    /\ \E is \in InstanceLists : \E i, j \in DOMAIN is :
        i < j /\ is[i].Time[1] = is[j].Time[1]

----------------------------------------------------------------------------
(* C14 *)

\* days of the test
DaysOf(wds) == [wd \in Weekdays |-> wd \in wds]

\* a schedule of activity "Test" at location "Test" with the given instances
TestSchedule(instances) ==
    << [ Name |-> "Test", Locations |-> << [ Name |-> "Test", Instances |-> instances ] >> ] >>

\* C14 as claimed: seven consecutive daily occurrences from a Sunday, all
\* 10:30-11:30, give one instance with all seven weekdays active and no exception.
SevenDailyNoException ==
    (Returned /\ feed = DailyFeed(7)) =>
        ss = TestSchedule(<< [ Time |-> fgTimeRange(10, 30, 11, 30),
                               Days |-> DaysOf(Weekdays),
                               Exceptions |-> <<>> ] >>)

\* C14 as amended: fourteen consecutive daily occurrences from a Sunday, all
\* 10:30-11:30, give one instance with all seven weekdays active and no
\* exception; seven give the instance with an only-on-weekday exception on
\* each of the seven dates.
FourteenDailyNoException ==
    /\ (Returned /\ feed = DailyFeed(14)) =>
        ss = TestSchedule(<< [ Time |-> fgTimeRange(10, 30, 11, 30),
                               Days |-> DaysOf(Weekdays),
                               Exceptions |-> <<>> ] >>)
    /\ (Returned /\ feed = DailyFeed(7)) =>
        ss = TestSchedule(<< [ Time |-> fgTimeRange(10, 30, 11, 30),
                               Days |-> DaysOf(Weekdays),
                               Exceptions |->
                                   [d \in 1..7 |-> [Exception(Jan(d)) EXCEPT !.OnlyOnWeekday = TRUE]] ] >>)

\* the schedule of the fourteen occurrences is returned
DailyWitness ==
    /\ Returned
    /\ feed = DailyFeed(14)
    /\ ssStart = Jan(1)
    /\ ssEnd = Jan(14)
    /\ Len(Insts) = 1

----------------------------------------------------------------------------
(* C15 *)

\* C15: the feed of the two cadences gives exactly two instances: 08:00-09:00
\* on Saturday and Sunday with both dates only-on-weekday, and 10:30-11:30 on
\* Tuesday and Thursday with a time exception on each of the three dates of
\* another time range and an excluded exception on the skipped Thursday.
TwoCadences ==
    (Returned /\ feed = CadenceFeed) =>
        ss = TestSchedule(
            << [ Time |-> fgTimeRange(8, 0, 9, 0),
                 Days |-> DaysOf({0, 6}),
                 Exceptions |->
                    << [Exception(Jan(35)) EXCEPT !.OnlyOnWeekday = TRUE],
                       [Exception(Jan(36)) EXCEPT !.OnlyOnWeekday = TRUE] >> ],
               [ Time |-> fgTimeRange(10, 30, 11, 30),
                 Days |-> DaysOf({2, 4}),
                 Exceptions |->
                    << [Exception(Jan(12)) EXCEPT !.Time = fgTimeRange(10, 30, 11, 45)],
                       [Exception(Jan(19)) EXCEPT !.Time = fgTimeRange(10, 45, 11, 30)],
                       [Exception(Jan(26)) EXCEPT !.Excluded = TRUE],
                       [Exception(Jan(31)) EXCEPT !.Time = fgTimeRange(10, 15, 11, 45)] >> ] >>)

\* the schedule of the two cadences is returned after three merges
TwoCadencesWitness ==
    /\ Returned
    /\ feed = CadenceFeed
    /\ Len(merges) = 3

----------------------------------------------------------------------------
(* C16 *)

\* the activities of the caller and of the copy prepare works on
CallerActivities == Elems(mem, schedule.Activities)

PreparedActivities == Elems(mem, newSchedule.Activities)

IsMarked(name) ==
    /\ name # <<>>
    /\ \/ Head(name) \in Range(CancelPrefixes)
       \/ name[Len(name)] \in Range(CancelSuffixes)

\* the names without the marker the name starts with or ends with
WithoutMarker(name) ==
    {Tail(name) : x \in {Head(name)} \cap Range(CancelPrefixes)}
    \cup {SubSeq(name, 1, Len(name) - 1) : x \in {name[Len(name)]} \cap Range(CancelSuffixes)}

\* occurrence i of the caller is a fake cancellation
IsFake(i) ==
    /\ ~CallerActivities[i].IsCancelled
    /\ IsMarked(TrimSpace(CallerActivities[i].Activity))

\* the other occurrences of the normalized list with the name, start and
\* weekday of occurrence i, in the order of the list
Siblings(i) ==
    LET P == PreparedActivities
    IN  SelectSeq([j \in DOMAIN P |-> j],
                  LAMBDA j : /\ j # i
                             /\ P[j].Activity = P[i].Activity
                             /\ P[j].TimeRange[1] = P[i].TimeRange[1]
                             /\ P[j].Date % DaysPerWeek = P[i].Date % DaysPerWeek)

\* C16: when the fake cancellations are converted, every occurrence which
\* was not flagged cancelled and whose trimmed name starts or ends with a
\* marker has the name without the marker and is cancelled; its identifier,
\* description and location are the most frequent ones (the first seen of
\* equally frequent ones) among the other occurrences of the normalized list
\* with its name, start and weekday, and the ones it had when there is none
FakeCancellation ==
    pc = "filter" =>
        \A i \in DOMAIN CallerActivities :
            IsFake(i) =>
                LET P == PreparedActivities
                    C == CallerActivities
                    sib == Siblings(i)
                IN  /\ P[i].Activity \in WithoutMarker(TrimSpace(C[i].Activity))
                    /\ P[i].IsCancelled
                    /\ IF sib = <<>>
                       THEN /\ P[i].ActivityID = C[i].ActivityID
                            /\ P[i].Description = C[i].Description
                            /\ P[i].Location = C[i].Location
                       ELSE /\ P[i].ActivityID = mostCommon([k \in DOMAIN sib |-> P[sib[k]].ActivityID])
                            /\ P[i].Description = mostCommon([k \in DOMAIN sib |-> P[sib[k]].Description])
                            /\ P[i].Location = mostCommon([k \in DOMAIN sib |-> P[sib[k]].Location])

\* a fake cancellation took the location of the first of two regular
\* siblings at different locations, which was not its own
FakeCancellationWitness ==
    /\ pc = "filter"
    /\ \E i \in DOMAIN CallerActivities :
        /\ IsFake(i)
        /\ Len(Siblings(i)) = 2
        /\ PreparedActivities[Siblings(i)[1]].Location # PreparedActivities[Siblings(i)[2]].Location
        /\ ~CallerActivities[Siblings(i)[1]].IsCancelled
        /\ ~IsFake(Siblings(i)[1])
        /\ PreparedActivities[i].Location # CallerActivities[i].Location
        /\ PreparedActivities[i].Location = PreparedActivities[Siblings(i)[1]].Location

----------------------------------------------------------------------------
(* C17 *)

\* what the caller sees of its schedule: the activities and the category
\* tags of each
CallerView ==
    [ Activities |-> CallerActivities,
      Categories |-> [i \in DOMAIN CallerActivities |-> Elems(mem, CallerActivities[i].Category)] ]

\* C17: no step of Prepare changes the schedule of its caller: the list of
\* activities with all their fields and the category tags of each activity
\* stay as they are
CallerScheduleUnchanged == [][CallerView' = CallerView]_vars

\* Prepare has converted a fake cancellation, the filter has dropped an
\* activity and has rewritten a category tag of one it kept
CallerScheduleWitness ==
    /\ pc = "filtered"
    /\ newSchedule.Activities.Len < schedule.Activities.Len
    /\ \E i \in DOMAIN CallerActivities : IsFake(i)
    /\ \E k \in DOMAIN PreparedActivities :
        /\ PreparedActivities[k].IsCancelled
        /\ \A i \in DOMAIN CallerActivities :
               Elems(mem, PreparedActivities[k].Category) # CallerView.Categories[i]

----------------------------------------------------------------------------
(* C18 *)

----------------------------------------------------------------------------
(* C19 *)

----------------------------------------------------------------------------
(* C20 *)

\* what the last call got from the cache of the feed
FeedValue == IF ret.op = "Cached" THEN ret.v ELSE ret.src

FeedError == IF ret.op = "Cached" THEN ret.err ELSE ret.srcErr

\* C20: a call of the cache of the feed at most CacheTime after the last
\* successful fetch returns the value of that fetch, without an error and
\* without a fetch; a later call whose update fails or is put off returns
\* that value with the error when the fetch is at most CacheTime + StaleTime
\* old, and no value otherwise; no value older than that is ever returned,
\* and with a negative StaleTime no value is returned with an error
StalenessBound ==
    [][ source = "Cached" =>
          LET age == now' - cache.success
              had == cache.success # ZeroTime
          IN  /\ (had /\ age <= cfg.CacheTime) =>
                     /\ FeedValue' = cache.successV
                     /\ FeedError' = NoError
                     /\ ~ret'.fetched
              /\ (had /\ age > cfg.CacheTime /\ FeedError' # NoError) =>
                     IF age <= cfg.CacheTime + cfg.StaleTime
                     THEN FeedValue' = cache.successV
                     ELSE IsNil(FeedValue')
              /\ ~IsNil(FeedValue') =>
                     now' - FeedValue'.Val.At <= cfg.CacheTime + cfg.StaleTime
              /\ cfg.StaleTime = 0 => ~(~IsNil(FeedValue') /\ FeedError' # NoError)
      ]_vars

\* an old value returned with the error of the update when it is exactly
\* CacheTime + StaleTime old
StalenessBoundWitness ==
    /\ source = "Cached"
    /\ ret.op # "none"
    /\ ~IsNil(FeedValue)
    /\ FeedError # NoError
    /\ cfg.StaleTime > 0
    /\ now - FeedValue.Val.At = cfg.CacheTime + cfg.StaleTime

----------------------------------------------------------------------------
(* C21 *)

\* C21: a Get of a CachedTransform returns a value or an error and never
\* both: nil with the error when the transform fails, the value with a nil
\* error otherwise
ValueOrError ==
    (ret.op = "CachedTransform" /\ ~ret.panic) =>
        ~(~IsNil(ret.v) /\ ret.err # NoError)

----------------------------------------------------------------------------
(* C22 *)

\* the call which waited has returned by the case ctx.Done in this step,
\* while its fetch was running
TimedOut == call # None /\ call' = None /\ fetches'[call.g].abandoned

\* an abandoned fetch returns in this step
AbandonedReturns ==
    \E g \in DOMAIN fetches :
        fetches[g].abandoned /\ fetches[g].state = "running" /\ fetches'[g].state = "returned"

\* C22: a call whose fetch has not returned when the deadline passes
\* returns with the deadline error: the failure is recorded with that error
\* and one more in the count, and the old value is returned only if it is
\* within the stale window; when the abandoned fetch returns later, neither
\* the cached value nor the failure state nor the last result changes
TimeoutAbandons ==
    [][ /\ TimedOut =>
              /\ cache'.failureN = cache.failureN + 1
              /\ cache'.failureV = DeadlineExceeded
              /\ cache'.failure = call.t
              /\ cache'.success = Expired(cache, cfg, call.t).success
              /\ cache'.successV = Expired(cache, cfg, call.t).successV
              /\ ret'.err = DeadlineExceeded
              /\ ret'.v = cache'.successV
              /\ ~IsNil(ret'.v) => call.t - ret'.v.Val.At <= cfg.CacheTime + cfg.StaleTime
        /\ AbandonedReturns => (cache' = cache /\ ret' = ret)
      ]_vars

\* a call has returned an old value with the deadline error while its fetch
\* still runs, and an earlier abandoned fetch has returned without an error
TimeoutAbandonsWitness ==
    /\ call = None
    /\ ret.err = DeadlineExceeded
    /\ ~IsNil(ret.v)
    /\ cache.failureN = 2
    /\ \E g, h \in DOMAIN fetches :
        /\ fetches[g].abandoned
        /\ fetches[g].state = "running"
        /\ fetches[h].abandoned
        /\ fetches[h].state = "returned"
        /\ fetches[h].err = NoError

----------------------------------------------------------------------------
(* C23 *)

\* the goroutines in which the transform runs
Transforming == {g \in Goroutines : reqs[g].pc = "transform"}

\* C23: the transform never runs in two goroutines at the same time, and a
\* Get returns the stored result of a transform which has completed, for the
\* value and error its source gave it, while no transform runs
SingleWriter ==
    /\ Cardinality(Transforming) <= 1
    /\ \A g \in Goroutines :
        /\ reqs[g].pc = "return" => Transforming = {}
        /\ (reqs[g].pc = "returned" /\ ~reqs[g].cleared) =>
              /\ ~IsNil(reqs[g].v)
              /\ reqs[g].v.Val.Schedule.Addr = reqs[g].src.Addr
              /\ reqs[g].v.Val.Error = reqs[g].srcErr

\* one goroutine runs the transform while another waits for the mutex after
\* a call has returned the result of an earlier transform
SingleWriterWitness ==
    \E g, h \in Goroutines :
        /\ reqs[g].pc = "transform"
        /\ reqs[h].pc = "idle"
        /\ tmu = g
        /\ ~IsNil(tcache.res)
        /\ ncalls = 2

----------------------------------------------------------------------------
(* C24 *)

\* the line l is a filter line with an unsupported field, an unknown
\* action, or a wrong number of arguments
Malformed(l) ==
    /\ l # <<>>
    /\ l[1] \in DOMAIN FilterKeyOf
    /\ \/ FilterKeyOf[l[1]] \notin FilterKeys
       \/ /\ Len(l) >= 2
          /\ l[2] \notin FilterActions
       \/ /\ Len(l) >= 2
          /\ l[2] \in {"in", "notIn"}
          /\ Len(l) < 3
       \/ /\ Len(l) >= 2
          /\ l[2] \in {"trimPrefix", "trimSuffix", "contains", "notContains"}
          /\ Len(l) # 3
       \/ /\ Len(l) >= 2
          /\ l[2] \in {"replace", "map"}
          /\ Len(l) # 4

\* C24: once parseSchedules has read a filter line with an unsupported
\* field, an unknown action or a wrong number of arguments, it has returned
\* an error and no schedules, and main builds no handler
MalformedFilterRejected ==
    (\E i \in 1 .. parse.line : Malformed(parse.lines[i])) =>
        /\ parse.status \in {"returned", "exit"}
        /\ parse.err # NoError
        /\ parse.cfg = <<>>
        /\ parse.line = CHOOSE i \in 1 .. parse.line : Malformed(parse.lines[i])

\* main has left after a file with a schedule, a good filter line for it and
\* then a filter line with too few arguments
MalformedFilterRejectedWitness ==
    /\ parse.status = "exit"
    /\ parse.line = 3
    /\ parse.lines[1] = <<"schedule", "/a", "110">>
    /\ parse.lines[2] = <<"filter.activity", "in", "Yoga">>
    /\ parse.lines[3] = <<"filter.activity", "map", "Yoga">>
    /\ parse.err = "wrong number of arguments for filter action"

----------------------------------------------------------------------------
(* C25 *)

\* the groups Into and From of gs share no date, and every occurrence of
\* From overlaps in time of day an occurrence of Into
LegalMerge(gs, into, from) ==
    /\ \A k \in DOMAIN gs[from] : \A l \in DOMAIN gs[into] :
            feed[gs[from][k]].Date # feed[gs[into][l]].Date
    /\ \A k \in DOMAIN gs[from] : \E l \in DOMAIN gs[into] :
            /\ feed[gs[from][k]].TimeRange[1] < feed[gs[into][l]].TimeRange[2]
            /\ feed[gs[into][l]].TimeRange[1] < feed[gs[from][k]].TimeRange[2]

\* the score of the merge of From into Into: the penalties for exclusions,
\* for exceptions and for the duration of From, and the time range of Into
Score(gs, into, from, wd) ==
    LET c == Candidate(feed, gs, into, from, wd, ssStart, ssEnd)
    IN  <<c.Exclusion, c.Exception, c.Duration, into[1], into[2]>>

\* the lexicographic order of scores
ScoreLess(x, y) ==
    \E k \in DOMAIN x : x[k] < y[k] /\ \A j \in 1 .. (k - 1) : x[j] = y[j]

\* the merges before and after this step, when one is applied in it
MergeApplied == Len(merges') = Len(merges) + 1

\* C25: the merge applied in an iteration of the merge loop of a partition
\* is a legal candidate of that iteration, and no legal candidate of the
\* iteration has a lower score
BestMergeApplied ==
    [][ MergeApplied =>
          LET m == merges'[Len(merges')]
              gs == pgs[m[1]]
          IN  /\ m[2] \in DOMAIN gs
              /\ m[3] \in DOMAIN gs
              /\ LegalMerge(gs, m[2], m[3])
              /\ \A into \in DOMAIN gs : \A from \in DOMAIN gs :
                    LegalMerge(gs, into, from) =>
                        ~ScoreLess(Score(gs, into, from, m[1].Weekday),
                                   Score(gs, m[2], m[3], m[1].Weekday))
      ]_vars

\* the groups of the feed of partition pk before its merge loop
InitialGroups(pk) == Partition(feed)[pk]

\* a first merge was applied which had legal candidates of a higher score in
\* each of the penalties beside it
BestMergeAppliedWitness ==
    /\ Len(merges) >= 1
    /\ LET m == merges[1]
           gs == InitialGroups(m[1])
           best == Score(gs, m[2], m[3], m[1].Weekday)
       IN  \A k \in 1 .. 3 :
              \E into \in DOMAIN gs : \E from \in DOMAIN gs :
                 /\ LegalMerge(gs, into, from)
                 /\ Score(gs, into, from, m[1].Weekday)[k] > best[k]
                 /\ \A j \in 1 .. (k - 1) : Score(gs, into, from, m[1].Weekday)[j] = best[j]

----------------------------------------------------------------------------
(* C26 *)

\* the occurrences of partition pk
OccurrencesOf(pk) == {fai \in DOMAIN feed : PartitionKey(feed[fai]) = pk}

\* every occurrence of partition pk is once in one group of gs
InOneGroup(pk, gs) ==
    \A fai \in OccurrencesOf(pk) :
        Cardinality({<<gk, k>> \in (DOMAIN gs) \X (1 .. Len(feed)) :
                        k \in DOMAIN gs[gk] /\ gs[gk][k] = fai}) = 1

\* the merges applied in partition pk so far
MergesOf(pk) == {i \in DOMAIN merges : merges[i][1] = pk}

\* the loop of a partition ends in this step
LoopEnds == pc = "merge" /\ pki' = pki + 1

\* C26: the merge loop terminates for every partition; a merge takes two
\* different groups, removes exactly the group From and leaves every
\* occurrence once in one remaining group; a partition has at most its
\* initial number of groups less one merges; the loop of a partition ends
\* exactly when no legal candidate remains
MergeLoopTerminates ==
    /\ [][ /\ MergeApplied =>
                LET m == merges'[Len(merges')]
                IN  /\ m[2] # m[3]
                    /\ DOMAIN pgs'[m[1]] = (DOMAIN pgs[m[1]]) \ {m[3]}
                    /\ Cardinality(DOMAIN pgs'[m[1]]) = Cardinality(DOMAIN pgs[m[1]]) - 1
                    /\ InOneGroup(m[1], pgs'[m[1]])
                    /\ \A pk \in (DOMAIN pgs) \ {m[1]} : pgs'[pk] = pgs[pk]
           /\ LoopEnds =>
                \A into \in DOMAIN pgs[pks[pki]] : \A from \in DOMAIN pgs[pks[pki]] :
                    ~LegalMerge(pgs[pks[pki]], into, from)
           /\ (pc = "merge" /\ pki <= Len(pks) /\ ~MergeApplied /\ ~LoopEnds) => UNCHANGED vars
         ]_vars
    /\ [](pc = "merge" =>
            \A pk \in DOMAIN pgs :
                /\ Cardinality(MergesOf(pk)) <= Cardinality(DOMAIN InitialGroups(pk)) - 1
                /\ \A gk \in DOMAIN pgs[pk] : ~LegalMerge(pgs[pk], gk, gk))
    /\ (pc = "merge") ~> (pc = "split")

\* the loop of a partition of three groups has ended after two merges
MergeLoopTerminatesWitness ==
    /\ pc = "split"
    /\ Len(merges) = 2
    /\ Cardinality(DOMAIN InitialGroups(merges[1][1])) = 3
    /\ merges[2][1] = merges[1][1]
    /\ Cardinality(DOMAIN pgs[merges[1][1]]) = 1

----------------------------------------------------------------------------
(* C27 *)

\* the groups after the merge loop, as pairs of partition and time range
Groups == {g \in (DOMAIN pgs) \X UNION {DOMAIN pgs[pk] : pk \in DOMAIN pgs} : g[2] \in DOMAIN pgs[g[1]]}

\* the occurrences of group g
GroupMembers(g) == {pgs[g[1]][g[2]][k] : k \in DOMAIN pgs[g[1]][g[2]]}

\* the occurrences of group g are as many as their exact time ranges
AllDistinct(g) ==
    LET ga == pgs[g[1]][g[2]]
    IN  \A k, l \in DOMAIN ga : k # l => feed[ga[k]].TimeRange # feed[ga[l]].TimeRange

\* the span dates on the weekday of group g without an occurrence of it
MissingDates(g) ==
    {d \in SpanDates : Weekday(d) = g[1].Weekday /\ \A fai \in GroupMembers(g) : feed[fai].Date # d}

\* at least as many missing dates as distinct time ranges
EnoughMissing(g) ==
    Cardinality(MissingDates(g)) >= Cardinality({feed[fai].TimeRange : fai \in GroupMembers(g)})

\* every occurrence of group g has its own time range as its base
OwnBase(g) == \A fai \in GroupMembers(g) : base[fai] = feed[fai].TimeRange

AfterSplit == pc \in {"build", "returned", "expanded", "panic"}

NoneCancelled(g) == \A fai \in GroupMembers(g) : ~feed[fai].IsCancelled

----------------------------------------------------------------------------
(* C28 *)

\* the seconds main waits after the n-th failure in a row
RetryAfter(n) ==
    CASE n \in {1, 2} -> 1
      [] n \in 3 .. 6 -> 15
      [] n \in 7 .. 10 -> 60
      [] OTHER -> 900

\* the call of this step comes after a failed update, has no value of at
\* most CacheTime, and comes before the time of the next attempt
PutOff ==
    /\ cfg.Backoff
    /\ cache.failureN >= 1
    /\ ~(cache.success # ZeroTime /\ now' - cache.success <= cfg.CacheTime)
    /\ now' < cache.failure + RetryAfter(cache.failureN)

\* C28: with a Backoff, a call after a failed update which finds no value of
\* at most CacheTime and comes before the time Backoff gives for the last
\* failure does not fetch, and returns the recorded error with the old value
\* if that is within the stale window; a call not put off this way fetches;
\* the count of failures in a row is 0 exactly when no failure is recorded,
\* grows by one with a failed fetch, is 0 after a successful one and stays
\* as it is without a fetch
BackoffPutsOff ==
    [][ source = "Cached" =>
          /\ PutOff =>
                /\ ~ret'.fetched
                /\ FeedError' = cache.failureV
                /\ FeedError' # NoError
                /\ FeedValue' = Expired(cache, cfg, now').successV
                /\ cache'.failure = cache.failure
          /\ (~PutOff /\ ~(cache.success # ZeroTime /\ now' - cache.success <= cfg.CacheTime))
                => ret'.fetched
          /\ cache'.failureN =
                IF ~ret'.fetched THEN cache.failureN
                ELSE IF FeedError' # NoError THEN cache.failureN + 1
                ELSE 0
          /\ cache'.failureN >= 0
          /\ (cache'.failureN = 0) = (cache'.failureV = NoError)
          /\ (cache'.failureN = 0) = (cache'.failure = ZeroTime)
      ]_vars

\* a call put off after a failure has returned the old value with the
\* recorded error
BackoffPutsOffWitness ==
    /\ source = "Cached"
    /\ cfg.Backoff
    /\ ret.op # "none"
    /\ ~ret.fetched
    /\ FeedError # NoError
    /\ ~IsNil(FeedValue)
    /\ cache.failureN >= 1
    /\ now < cache.failure + RetryAfter(cache.failureN)

----------------------------------------------------------------------------
(* C29 *)

\* the name, the location, the date and the categories of activity a in mem
Fields(a) ==
    [ Activity |-> a.Activity, Location |-> a.Location, Date |-> a.Date,
      Category |-> Elems(mem, a.Category) ]

\* the values of the field key of the activity with the fields v
ValuesOf(v, key) ==
    CASE key = "activity" -> {v.Activity}
      [] key = "location" -> {v.Location}
      [] key = "category" -> {v.Category[i].Name : i \in DOMAIN v.Category}
      [] key = "category_id" -> {v.Category[i].ID : i \in DOMAIN v.Category}

\* what the claim has the filter function f keep
Keeps(f, v) ==
    IF f.Act = "contains"
    THEN \A x \in ValuesOf(v, f.Key) : Contains(x, f.Arg[1])
    ELSE \A x \in ValuesOf(v, f.Key) : ~Contains(x, f.Arg[1])

\* the activities of the schedule of the caller, and the ones the filter
\* has kept
GivenFields == [i \in 1 .. schedule.Activities.Len |-> Fields(mem[schedule.Activities.Ptr][i])]

KeptFields == [i \in 1 .. newSchedule.Activities.Len |-> Fields(mem[newSchedule.Activities.Ptr][i])]

ContainsFiltered ==
    /\ pc = "filtered"
    /\ filter # None
    /\ Len(filter) = 1
    /\ filter[1].Act \in {"contains", "notContains"}

\* C29: a filter with the action contains keeps exactly the occurrences
\* every value of whose field contains the argument, one with notContains
\* exactly those no value of whose field contains it, and the kept
\* occurrences are as they were
ContainsKeepsMatching ==
    ContainsFiltered =>
        KeptFields = SelectSeq(GivenFields, LAMBDA v : Keeps(filter[1], v))

----------------------------------------------------------------------------
(* C30 *)

\* the line read in this step
ScannedLine == parse.lines[parse.line + 1]

\* the step reads a line which extends a schedule defined before under a
\* path not used so far
Extends ==
    /\ parse.status = "scanning"
    /\ parse.line < Len(parse.lines)
    /\ parse'.line = parse.line + 1
    /\ Len(ScannedLine) = 3
    /\ ScannedLine[1] = "schedule"
    /\ ScannedLine[3] \notin DOMAIN Numbers
    /\ <<ScannedLine[3]>> \in DOMAIN parse.cfg
    /\ <<ScannedLine[2]>> \notin DOMAIN parse.cfg

\* C30: a line which extends a schedule defined before, with or without
\* filter lines, gives a new current schedule with the school, the options
\* and the filters of the other one; a line leaves the schedules other than
\* the current one as they are; parseSchedules never panics
ExtendKeepsParent ==
    [][ /\ parse'.status # "panic"
        /\ Extends =>
              LET new == parse'.cfg[<<ScannedLine[2]>>]
                  old == parse.cfg[<<ScannedLine[3]>>]
              IN  /\ parse'.cur = <<ScannedLine[2]>>
                  /\ new.SchoolID = old.SchoolID
                  /\ new.Options = old.Options
                  /\ new.Filter.Funcs = old.Filter.Funcs
        /\ (parse'.status = "scanning" /\ parse'.line = parse.line + 1) =>
              \A path \in DOMAIN parse.cfg :
                  path # parse'.cur => parse'.cfg[path] = parse.cfg[path]
      ]_vars

====
